---- MODULE Spec2Model ----
(***************************************************************************)
(* Model of the slurm-spank crate (src/src/lib.rs): the process-wide       *)
(* option cache, option registration, the option capture callback, the    *)
(* option value accessors, the dispatch of the twelve lifecycle entry     *)
(* points through spank_callback_with_globals, the environment methods,    *)
(* the item queries, the rendering of errors and spank_log.                *)
(*                                                                         *)
(* Strings are sequences of bytes.  The host (Slurm) is external: every    *)
(* native call's reply is an input of the action that makes the call.      *)
(***************************************************************************)
EXTENDS Integers, Sequences, FiniteSets, TLC

\* ------------------------------------------------------------------ bounds

\* Longest OptionCache.options the model lets registrations build.
MaxOptions == 2

\* ------------------------------------------------------------- byte strings

\* U+FFFD REPLACEMENT CHARACTER in UTF-8, what to_string_lossy inserts.
Replacement == <<239, 191, 189>>

IsCont(b) == b >= 128 /\ b <= 191

\* Number of bytes of the UTF-8 sequence a lead byte announces (0: no lead byte).
Utf8Width(b) ==
    IF b < 128 THEN 1
    ELSE IF b >= 194 /\ b <= 223 THEN 2
    ELSE IF b >= 224 /\ b <= 239 THEN 3
    ELSE IF b >= 240 /\ b <= 244 THEN 4
    ELSE 0

\* Whether c may follow lead byte b as the second byte of its sequence.
SecondOk(b, c) ==
    IF b = 224 THEN c >= 160 /\ c <= 191
    ELSE IF b = 237 THEN c >= 128 /\ c <= 159
    ELSE IF b = 240 THEN c >= 144 /\ c <= 191
    ELSE IF b = 244 THEN c >= 128 /\ c <= 143
    ELSE IsCont(c)

\* Length of the longest valid prefix of the sequence starting at s[i]:
\* the whole width when the sequence is well formed, fewer bytes otherwise.
GoodPrefix(s, i) ==
    LET w == Utf8Width(s[i])
        has(k) == i + k <= Len(s)
    IN  IF w = 0 THEN 0
        ELSE IF w = 1 THEN 1
        ELSE IF ~has(1) \/ ~SecondOk(s[i], s[i + 1]) THEN 1
        ELSE IF w = 2 THEN 2
        ELSE IF ~has(2) \/ ~IsCont(s[i + 2]) THEN 2
        ELSE IF w = 3 THEN 3
        ELSE IF ~has(3) \/ ~IsCont(s[i + 3]) THEN 3
        ELSE 4

RECURSIVE Utf8From(_, _)
Utf8From(s, i) ==
    IF i > Len(s) THEN TRUE
    ELSE LET w == Utf8Width(s[i])
         IN  w > 0 /\ GoodPrefix(s, i) = w /\ Utf8From(s, i + w)

\* str::from_utf8(s).is_ok()
IsUtf8(s) == Utf8From(s, 1)

RECURSIVE LossyFrom(_, _)
LossyFrom(s, i) ==
    IF i > Len(s) THEN <<>>
    ELSE LET w == Utf8Width(s[i])
             g == GoodPrefix(s, i)
         IN  IF w > 0 /\ g = w
             THEN SubSeq(s, i, i + w - 1) \o LossyFrom(s, i + w)
             ELSE Replacement \o LossyFrom(s, i + (IF g = 0 THEN 1 ELSE g))

\* OsStr::to_string_lossy
to_string_lossy(s) == LossyFrom(s, 1)

\* CString::new(s).is_err(): the bytes hold an interior NUL.
HasNul(s) == \E i \in 1..Len(s) : s[i] = 0

\* ------------------------------------------------------------------ values

\* Option<OsString>
None == [some |-> FALSE, val |-> <<>>]
Some(v) == [some |-> TRUE, val |-> v]

\* Results of the wrapper's operations: kind is "Ok", "OkNone", "OkSome" or
\* the SpankError variant; val the payload bytes; fn and code the native
\* function name and mapped native code of a SpankAPI error.
Ok == [kind |-> "Ok", val |-> <<>>, fn |-> "", code |-> ""]
OkNone == [kind |-> "OkNone", val |-> <<>>, fn |-> "", code |-> ""]
OkSome(v) == [kind |-> "OkSome", val |-> v, fn |-> "", code |-> ""]
Utf8Error(s) == [kind |-> "Utf8Error", val |-> s, fn |-> "", code |-> ""]
CStringError(s) == [kind |-> "CStringError", val |-> s, fn |-> "", code |-> ""]
EnvExists(s) == [kind |-> "EnvExists", val |-> s, fn |-> "", code |-> ""]
SpankAPI(f, c) == [kind |-> "SpankAPI", val |-> <<>>, fn |-> f, code |-> c]
IdNotFound(i) == [kind |-> "IdNotFound", val |-> <<i>>, fn |-> "", code |-> ""]
PidNotFound(p) == [kind |-> "PidNotFound", val |-> <<p>>, fn |-> "", code |-> ""]
Overflow(u) == [kind |-> "Overflow", val |-> <<u>>, fn |-> "", code |-> ""]

\* Ok(v) for a vector v of strings.
OkList(v) == [kind |-> "OkList", val |-> v, fn |-> "", code |-> ""]

\* Ok(n) for a number n.
OkNum(n) == [kind |-> "OkNum", val |-> <<n>>, fn |-> "", code |-> ""]

\* A result without a call.
NoRes == [kind |-> "", val |-> <<>>, fn |-> "", code |-> ""]

IsErr(r) == r.kind \in {"Utf8Error", "CStringError", "SpankAPI", "EnvExists",
                      "IdNotFound", "PidNotFound", "Overflow"}

from_os_str(s) == Utf8Error(to_string_lossy(s))
from_str(s) == CStringError(s)
from_cstr(s) == CStringError(to_string_lossy(s))

\* SpankApiError::from(err): unknown codes fall back to Generic.
SpankApiErrorFrom(e) ==
    CASE e = "ESPANK_ERROR" -> "Generic"
      [] e = "ESPANK_BAD_ARG" -> "BadArg"
      [] e = "ESPANK_NOT_TASK" -> "NotTask"
      [] e = "ESPANK_ENV_EXISTS" -> "EnvExists"
      [] e = "ESPANK_ENV_NOEXIST" -> "EnvNotExist"
      [] e = "ESPANK_NOSPACE" -> "NoSpace"
      [] e = "ESPANK_NOT_REMOTE" -> "NotRemote"
      [] e = "ESPANK_NOEXIST" -> "NoExist"
      [] e = "ESPANK_NOT_EXECD" -> "NotExecd"
      [] e = "ESPANK_NOT_AVAIL" -> "NotAvail"
      [] e = "ESPANK_NOT_LOCAL" -> "NotLocal"
      [] OTHER -> "Generic"

from_spank(name, e) == SpankAPI(name, SpankApiErrorFrom(e))

\* os_value_to_str: the value as a str, or Utf8Error with the lossy rendering.
os_value_to_str(v) == IF IsUtf8(v) THEN OkSome(v) ELSE from_os_str(v)

\* os_value_to_lossy
os_value_to_lossy(v) == IF IsUtf8(v) THEN v ELSE to_string_lossy(v)

\* --------------------------------------------------------------- input sets

\* Context::{Local, Remote, Allocator, Slurmd, JobScript}; "Error" stands for
\* a spank_context() value outside the enumeration (S_CTX_ERROR).
ValidContexts == {"Local", "Remote", "Allocator", "Slurmd", "JobScript"}
Contexts == ValidContexts \cup {"Error"}

\* The twelve lifecycle entry points.
Callbacks ==
    << "init", "job_prolog", "init_post_opt", "local_user_init", "user_init",
       "task_init_privileged", "task_init", "task_post_fork", "task_exit",
       "job_epilog", "slurmd_exit", "exit" >>

\* The entry points the host calls in a process of context c, as the Plugin
\* trait documents them: task and user_init callbacks in remote context
\* only, local_user_init in local context only, slurmd_exit in slurmd, the
\* prolog and epilog in a job script's process.
HostCalls(c) ==
    CASE c = "Local" -> {"init", "init_post_opt", "local_user_init", "exit"}
      [] c = "Remote" -> {"init", "init_post_opt", "user_init", "task_init_privileged",
                          "task_init", "task_post_fork", "task_exit", "exit"}
      [] c = "Allocator" -> {"init", "init_post_opt", "exit"}
      [] c = "Slurmd" -> {"init", "slurmd_exit"}
      [] c = "JobScript" -> {"init", "job_prolog", "job_epilog", "exit"}
      [] OTHER -> {"init", "exit"}

\* Option names: "x", "y" and a name with an embedded NUL.
OptNames == { <<120>>, <<121>> }
NulName == <<120, 0>>
Names == OptNames \cup {NulName}

\* Option values the host hands over: "e-acute" (two bytes of UTF-8) and a
\* byte string that is not UTF-8.
Values == { <<195, 169>>, <<255>> }

\* Names given to SPANK_PLUGIN!: "t", and a name already ending in NUL.
PluginNames == { <<116>>, <<116, 0>> }

\* Statuses the native calls may report besides success.
GetoptErrors == {"ESPANK_NOT_AVAIL"}
RegisterErrors == {"ESPANK_BAD_ARG"}
ItemErrors == {"ESPANK_ERROR"}

\* Replies of spank_option_getopt: a status and the optarg pointer.
NoReply == [st |-> "", arg |-> None]
GetoptReplies ==
    {[st |-> "ESPANK_SUCCESS", arg |-> a] : a \in {None} \cup {Some(v) : v \in Values}}
        \cup {[st |-> e, arg |-> None] : e \in GetoptErrors}

\* A getopt reply that reports the option as unset.
ReplyUnset(r) == r.st # "ESPANK_SUCCESS" \/ ~r.arg.some

\* ------------------------------------------------------------------- state

VARIABLES
    ctx,            \* what spank_context() returns in this process
    plugin_name,    \* the name given to SPANK_PLUGIN!
    options,        \* OptionCache.options
    values,         \* OptionCache.values: a map from names to Option<OsString>
    optPoisoned,    \* OPTION_CACHE's mutex is poisoned
    pluginPoisoned, \* PLUGIN's mutex is poisoned
    held,           \* the mutexes whose guard a running callback holds
    contended,      \* history: <<>>, or the last entry point the host called
                    \* from another thread while a callback was running, how
                    \* far it got and the status it returned
    pluginSlot,     \* the contents of PLUGIN: NoPlugin, or the instance
    plugin,         \* the instance a running callback took out of the slot
    constructed,    \* number of P::default() calls that returned
    setupCalls,     \* number of Plugin::setup calls
    pc,             \* "host", "setup" (inside Plugin::setup), "author" (inside
                    \* a lifecycle method), or, after a panic that nothing
                    \* catches, "aborted" or "unwound"
    cb,             \* the entry point running, or the last one that ran
    status,         \* <<s>>: the last entry point returned s to the host;
                    \* <<>>: the running one has not returned yet
    outcome,        \* how far that callback has got, or how it ended
    reports,        \* origins of the errors given to report_error in it
    lastOp,         \* the last Handle operation of the running method
    prevOp,         \* the operation before it, when that was a get_option_value
                    \* that called the native getopt
    capStatus,      \* what the last spank_option_callback since the last
                    \* lifecycle callback returned (0 when there was none)
    capLogged,      \* the val named in the error that call logged: <<val>>, or <<>>
    capVal,         \* history: <<val>> that call was made with, or <<>>
    nativeRegs,     \* history: val and name of each successful native registration
    lastCaptured,   \* history: name -> optarg of the last capture stored
    overwrote,      \* history: names whose last capture replaced another value
    written,        \* history: the field value the author's methods last gave
                    \* the instance, and the callback that wrote it
    envs,           \* the host's job environment and job control environment
    lastEnv,        \* the last environment call of the running method
    lastSet,        \* history: per environment, name -> value of the last
                    \* setenv with overwrite that nothing has undone since
    lastCall        \* the last call, in the running method, of an operation that
                    \* touches neither the cache nor the environments

cacheVars == <<options, values>>
lockVars == <<optPoisoned, pluginPoisoned, held, contended>>
pluginVars == <<pluginSlot, plugin, constructed, setupCalls>>
cbVars == <<pc, cb, status, outcome, reports>>
histVars == <<nativeRegs, lastCaptured, overwrote>>
opVars == <<lastOp, prevOp>>
envVars == <<envs, lastEnv, lastSet>>
vars == <<ctx, plugin_name, cacheVars, lockVars, pluginVars, cbVars, opVars,
          capStatus, capLogged, capVal, histVars, written, lastCall, envVars>>

\* Option<Box<dyn Plugin>>: the empty slot, and the instance P::default() builds.
NoPlugin == [id |-> 0, data |-> 0]
NewPlugin(n) == [id |-> n, data |-> 0]

NoOp == [op |-> "", name |-> <<>>, res |-> NoRes, reply |-> NoReply, ncalls |-> 0,
         slot |-> -1]

\* The field of a P::default() instance, not written by any method yet.
NotWritten == [data |-> 0, cb |-> "none"]

\* Both environments empty.
NoEnvs == [job |-> [x \in {} |-> <<>>], control |-> [x \in {} |-> <<>>]]

\* The environments a process starts with: both empty, or both holding the
\* variable F that the user's environment had when the job was submitted.
InitialEnvs ==
    {NoEnvs, [job |-> [x \in {<<70>>} |-> <<195, 169>>],
              control |-> [x \in {<<70>>} |-> <<195, 169>>]]}

\* No environment call made yet.
NoEnvCall == [op |-> "", name |-> <<>>, value |-> <<>>, overwrite |-> FALSE,
              before |-> None, avail |-> FALSE, st |-> "", ncalls |-> 0,
              res |-> NoRes, again |-> FALSE]

\* No such call made yet: the operation, its input, the last native status
\* and what the native call gave with it, the number of native calls, the
\* result, and what the host was handed.
NoCall == [op |-> "", input |-> <<>>, st |-> "", got |-> <<>>, ncalls |-> 0,
           res |-> NoRes, out |-> <<>>]

\* OptionCache::default(), PLUGIN = None, no callback made yet.
Init ==
    /\ ctx \in Contexts
    /\ plugin_name \in PluginNames
    /\ options = <<>>
    /\ values = [x \in {} |-> None]
    /\ optPoisoned = FALSE
    /\ pluginPoisoned = FALSE
    /\ held = {}
    /\ contended = <<>>
    /\ pluginSlot = NoPlugin
    /\ plugin = NoPlugin
    /\ constructed = 0
    /\ setupCalls = 0
    /\ pc = "host"
    /\ cb = "none"
    /\ status = <<>>
    /\ outcome = "none"
    /\ reports = <<>>
    /\ lastOp = NoOp
    /\ prevOp = NoOp
    /\ capStatus = 0
    /\ capLogged = <<>>
    /\ capVal = <<>>
    /\ nativeRegs = <<>>
    /\ lastCaptured = [x \in {} |-> None]
    /\ overwrote = {}
    /\ written = NotWritten
    /\ lastCall = NoCall
    /\ envs \in InitialEnvs
    /\ lastEnv = NoEnvCall
    /\ lastSet = NoEnvs

\* The same for a process whose environments start empty: the start of the
\* behaviours in which no method makes an environment call.
InitCache ==
    /\ Init
    /\ envs = NoEnvs

\* ------------------------------------------------------- the option cache

\* HashMap::insert
Put(m, k, v) == [x \in DOMAIN m \cup {k} |-> IF x = k THEN v ELSE m[x]]

\* What the author hands to register_option: SpankOption::new(name), with
\* or without takes_value(arginfo) and usage(usage).
SpankOption(n, a, u) == [name |-> n, arginfo |-> a, usage |-> u]
SpankOptions ==
    {SpankOption(n, a, None) : n \in OptNames, a \in {None, Some(<<110>>)}}
        \cup {SpankOption(NulName, None, None),
              SpankOption(<<120>>, Some(<<110, 0>>), None),
              SpankOption(<<120>>, Some(<<110>>), Some(<<117, 0>>)),
              SpankOption(<<121>>, None, Some(<<117>>))}

\* register_option that does not look for a NUL in the usage text.
register_option_usage_unchecked(opts, spank_opt, st) ==
    LET fail(s) == [res |-> from_str(s), options |-> opts, native |-> FALSE, val |-> -1]
    IN  IF spank_opt.arginfo.some /\ HasNul(spank_opt.arginfo.val)
        THEN fail(spank_opt.arginfo.val)
        ELSE IF HasNul(spank_opt.name)
        THEN fail(spank_opt.name)
        ELSE IF st = "ESPANK_SUCCESS"
        THEN [res |-> Ok, options |-> Append(opts, spank_opt.name),
              native |-> TRUE, val |-> Len(opts)]
        ELSE [res |-> from_spank("spank_option_register", st), options |-> opts,
              native |-> TRUE, val |-> Len(opts)]

\* register_option reporting every native failure as the generic error.
register_option_generic_err(opts, spank_opt, st) ==
    LET fail(s) == [res |-> from_str(s), options |-> opts, native |-> FALSE, val |-> -1]
    IN  IF spank_opt.arginfo.some /\ HasNul(spank_opt.arginfo.val)
        THEN fail(spank_opt.arginfo.val)
        ELSE IF HasNul(spank_opt.name)
        THEN fail(spank_opt.name)
        ELSE IF spank_opt.usage.some /\ HasNul(spank_opt.usage.val)
        THEN fail(spank_opt.usage.val)
        ELSE IF st = "ESPANK_SUCCESS"
        THEN [res |-> Ok, options |-> Append(opts, spank_opt.name),
              native |-> TRUE, val |-> Len(opts)]
        ELSE [res |-> SpankAPI("spank_option_register", "Generic"), options |-> opts,
              native |-> TRUE, val |-> Len(opts)]

\* register_option pushing the name before it looks at the native status.
register_option_push_first(opts, spank_opt, st) ==
    LET fail(s) == [res |-> from_str(s), options |-> opts, native |-> FALSE, val |-> -1]
    IN  IF spank_opt.arginfo.some /\ HasNul(spank_opt.arginfo.val)
        THEN fail(spank_opt.arginfo.val)
        ELSE IF HasNul(spank_opt.name)
        THEN fail(spank_opt.name)
        ELSE IF spank_opt.usage.some /\ HasNul(spank_opt.usage.val)
        THEN fail(spank_opt.usage.val)
        ELSE [res |-> IF st = "ESPANK_SUCCESS" THEN Ok
                      ELSE from_spank("spank_option_register", st),
              options |-> Append(opts, spank_opt.name),
              native |-> TRUE, val |-> Len(opts)]

\* SpankHandle::register_option on options opts, the native registration
\* answering st: the result, the options afterwards, whether the native
\* function was called and the val it was given.
register_option(opts, spank_opt, st) ==
    LET fail(s) == [res |-> from_str(s), options |-> opts, native |-> FALSE, val |-> -1]
    IN  IF spank_opt.arginfo.some /\ HasNul(spank_opt.arginfo.val)
        THEN fail(spank_opt.arginfo.val)
        ELSE IF HasNul(spank_opt.name)
        THEN fail(spank_opt.name)
        ELSE IF spank_opt.usage.some /\ HasNul(spank_opt.usage.val)
        THEN fail(spank_opt.usage.val)
        ELSE IF st = "ESPANK_SUCCESS"
        THEN [res |-> Ok, options |-> Append(opts, spank_opt.name),
              native |-> TRUE, val |-> Len(opts)]
        ELSE [res |-> from_spank("spank_option_register", st), options |-> opts,
              native |-> TRUE, val |-> Len(opts)]

\* spank_option_callback storing nothing for a null optarg.
spank_option_callback_skip_null(opts, vals, val, optarg) ==
    IF val >= 0 /\ val < Len(opts)
    THEN [status |-> 0, log |-> <<>>,
          values |-> IF optarg.some THEN Put(vals, opts[val + 1], optarg) ELSE vals]
    ELSE [status |-> -1, values |-> vals, log |-> <<val>>]

\* spank_option_callback reading val as an index that counts from one.
spank_option_callback_one_based(opts, vals, val, optarg) ==
    IF val >= 1 /\ val <= Len(opts)
    THEN [status |-> 0, log |-> <<>>, values |-> Put(vals, opts[val], optarg)]
    ELSE [status |-> -1, values |-> vals, log |-> <<val>>]

\* spank_option_callback keeping the value a name already has.
spank_option_callback_keep_first(opts, vals, val, optarg) ==
    IF val >= 0 /\ val < Len(opts)
    THEN [status |-> 0, log |-> <<>>,
          values |-> IF opts[val + 1] \in DOMAIN vals THEN vals
                     ELSE Put(vals, opts[val + 1], optarg)]
    ELSE [status |-> -1, values |-> vals, log |-> <<val>>]

\* spank_option_callback keeping the optarg of a val it does not know, under
\* the name "?".
spank_option_callback_store_unknown(opts, vals, val, optarg) ==
    IF val >= 0 /\ val < Len(opts)
    THEN [status |-> 0, log |-> <<>>, values |-> Put(vals, opts[val + 1], optarg)]
    ELSE [status |-> -1, values |-> Put(vals, <<63>>, optarg), log |-> <<val>>]

\* spank_option_callback taking an unknown val for an option it ignores.
spank_option_callback_ignore_unknown(opts, vals, val, optarg) ==
    IF val >= 0 /\ val < Len(opts)
    THEN [status |-> 0, log |-> <<>>, values |-> Put(vals, opts[val + 1], optarg)]
    ELSE [status |-> 0, values |-> vals, log |-> <<>>]

\* spank_option_callback once it holds the cache: the status returned, the
\* values afterwards and the val named in the error it logs, if it logs
\* one.  val is a c_int; a negative one, cast to usize,
\* is past the end of options.
spank_option_callback(opts, vals, val, optarg) ==
    IF val >= 0 /\ val < Len(opts)
    THEN [status |-> 0, log |-> <<>>, values |-> Put(vals, opts[val + 1], optarg)]
    ELSE [status |-> -1, values |-> vals, log |-> <<val>>]

\* SpankHandle::context
context(c) == IF c \in ValidContexts THEN c ELSE "Err"

\* SpankHandle::getopt_os, the native getopt answering reply.
getopt_os(name, reply) ==
    IF HasNul(name) THEN from_str(name)
    ELSE IF reply.st = "ESPANK_SUCCESS"
    THEN (IF reply.arg.some THEN OkSome(reply.arg.val) ELSE OkNone)
    ELSE from_spank("spank_option_getopt", reply.st)

\* Number of native getopt calls one option value query makes.
getopt_calls(c, name) == IF context(c) = "JobScript" /\ ~HasNul(name) THEN 1 ELSE 0

\* SpankHandle::get_option_value_os, as an Option.
get_option_value_os(c, vals, name, reply) ==
    IF context(c) = "JobScript"
    THEN LET r == getopt_os(name, reply)
         IN  IF r.kind = "OkSome" THEN Some(r.val) ELSE None
    ELSE IF name \in DOMAIN vals /\ vals[name].some
         THEN Some(vals[name].val)
         ELSE None

\* get_option_value handing on the error of getopt_os.
get_option_value_getopt_err(c, vals, name, reply) ==
    IF context(c) = "JobScript" /\ IsErr(getopt_os(name, reply))
    THEN getopt_os(name, reply)
    ELSE LET o == get_option_value_os(c, vals, name, reply)
         IN  IF o.some THEN os_value_to_str(o.val) ELSE OkNone

\* SpankHandle::get_option_value
get_option_value(c, vals, name, reply) ==
    LET o == get_option_value_os(c, vals, name, reply)
    IN  IF o.some THEN os_value_to_str(o.val) ELSE OkNone

\* SpankHandle::get_option_value_lossy, as an Option.
get_option_value_lossy(c, vals, name, reply) ==
    LET o == get_option_value_os(c, vals, name, reply)
    IN  IF o.some THEN Some(os_value_to_lossy(o.val)) ELSE None

\* An is_option_set that reads the cache in every context.
is_option_set_cache_only(c, vals, name, reply) == name \in DOMAIN vals

\* SpankHandle::is_option_set
is_option_set(c, vals, name, reply) ==
    IF context(c) = "JobScript"
    THEN ~IsErr(getopt_os(name, reply))
    ELSE name \in DOMAIN vals

\* An Option returned by an accessor, written as a result.
AsRes(o) == IF o.some THEN OkSome(o.val) ELSE OkNone

\* A query that records the name it was asked for.
values_after_query_insert(c, vals, name, reply) ==
    IF name \in DOMAIN vals THEN vals ELSE Put(vals, name, None)

\* The cache an option value query leaves behind: the accessors take &self.
values_after_query(c, vals, name, reply) == vals

\* ------------------------------------------------------------ the dispatch

\* A status that takes a caught panic for success.
callback_status_panic_ok(res) == IF res = "Err" THEN -1 ELSE 0

\* The status spank_callback_with_globals returns for a callback that ended
\* with res: "Ok", "Err", or "Panic" caught by catch_unwind.
callback_status(res) == IF res = "Ok" THEN 0 ELSE -1

\* A PLUGIN filled with a fresh instance in place of the one taken.
slot_after_default(res, inst) == IF res = "Panic" THEN NoPlugin ELSE NewPlugin(inst.id)

\* A PLUGIN that is not filled again.
slot_after_taken(res, inst) == NoPlugin

\* PLUGIN after the callback: take() emptied it, and replace(plugin) runs
\* only when func returned.
slot_after(res, inst) == IF res = "Panic" THEN NoPlugin ELSE inst

\* A mutex whose guard is dropped by a panic's unwinding is poisoned.
poisoned_after(res, was) == was \/ res = "Panic"

\* OPTION_CACHE and PLUGIN, the mutexes of the lazy_static block.
Mutexes == {"OPTION_CACHE", "PLUGIN"}

\* A try_lock that a poisoned mutex does not fail.
try_lock_ignore_poison(poisoned, h, m) == m \notin h

\* Mutex::try_lock: Ok when the mutex is neither poisoned nor locked.
try_lock(poisoned, h, m) == ~poisoned /\ m \notin h

\* Guards that a panic leaves locked.
held_after_leak(res, h) == IF res = "Panic" THEN h ELSE {}

\* The guards left once spank_callback_with_globals is over: opt_cache and
\* plugin_option are locals of the closure, dropped when it returns and when
\* a panic unwinds it.
held_after(res, h) == {}

\* An Err that goes unreported.
reports_after_silent(res, reps, origin) == reps

\* The errors report_error has received once a step ended with res.
reports_after(res, reps, origin) == IF res = "Err" THEN Append(reps, origin) ELSE reps

\* CStr::from_bytes_with_nul(&plugin_name)?.to_str()? in spank_hook, where
\* plugin_name is the given name followed by NUL.
plugin_name_ok(n) == ~HasNul(n) /\ IsUtf8(n)

\* Replies of spank_get_item for a string item: a status and the pointer.
ItemReplies ==
    {[st |-> "ESPANK_SUCCESS", arg |-> a] : a \in {None, Some(<<50>>), Some(<<255>>)}}
        \cup {[st |-> e, arg |-> None] : e \in ItemErrors}

\* The &str arm of spank_item_getter (slurm_version, ...): "Panic" stands
\* for the panic on a null pointer with a success status.
get_item_str(item, reply) ==
    IF reply.st = "ESPANK_SUCCESS"
    THEN IF ~reply.arg.some
         THEN [kind |-> "Panic", val |-> <<>>, fn |-> "", code |-> ""]
         ELSE IF IsUtf8(reply.arg.val)
              THEN OkSome(reply.arg.val)
              ELSE Utf8Error(to_string_lossy(reply.arg.val))
    ELSE SpankAPI("spank_get_item(" \o item \o ")", SpankApiErrorFrom(reply.st))

\* How far the entry point of a lifecycle callback gets before the author's
\* code: spank_callback_with_globals up to func, then spank_hook's closure up
\* to Plugin::setup ("setup") or, with an instance in PLUGIN, up to the
\* callback's method ("running").  dflt is how P::default() ends when called.
entry_stage(dflt) ==
    LET need_setup == pluginSlot = NoPlugin
    IN  IF ~try_lock(optPoisoned, held, "OPTION_CACHE")
           \/ ~try_lock(pluginPoisoned, held, "PLUGIN") THEN "LockPanic"
        ELSE IF need_setup /\ dflt = "Panic" THEN "DefaultPanic"
        ELSE IF need_setup THEN "setup"
        ELSE IF ~plugin_name_ok(plugin_name) THEN "NameErr"
        ELSE "running"

\* How far spank_hook's closure gets once Plugin::setup ended with res.
setup_stage(res) ==
    IF res = "Err" THEN "SetupErr"
    ELSE IF res = "Panic" THEN "SetupPanic"
    ELSE IF ~plugin_name_ok(plugin_name) THEN "NameErr"
    ELSE "running"

\* What func, or the unwinding, hands to the end of spank_callback_with_globals.
stage_result(how) ==
    CASE how \in {"LockPanic", "DefaultPanic", "SetupPanic", "Panic"} -> "Panic"
      [] how \in {"SetupErr", "NameErr", "Err"} -> "Err"
      [] OTHER -> "Ok"

\* ----------------------------------------------------------------- actions

Outcomes == {"Ok", "Err", "Panic"}
Accessors == {"get_option_value", "get_option_value_os", "get_option_value_lossy"}

\* The host calls the entry point of lifecycle callback c, any of them and
\* any number of times: the entry point runs up to the author's code.
Enter(c, dflt) ==
    /\ pc = "host"
    /\ c \in HostCalls(ctx)
    /\ pluginSlot = NoPlugin \/ dflt = "Ok"
    /\ LET how == entry_stage(dflt)
           res == stage_result(how)
           inside == how \in {"setup", "running"}
           inst == IF how = "setup" THEN NewPlugin(constructed + 1) ELSE pluginSlot
       IN  /\ cb' = c
           /\ outcome' = how
           /\ pc' = IF how = "setup" THEN "setup"
                    ELSE IF how = "running" THEN "author" ELSE "host"
           /\ status' = IF inside THEN <<>> ELSE <<callback_status(res)>>
           /\ optPoisoned' = IF inside THEN optPoisoned
                             ELSE poisoned_after(res, optPoisoned)
           /\ pluginPoisoned' = IF inside \/ how = "LockPanic" THEN pluginPoisoned
                                ELSE poisoned_after(res, pluginPoisoned)
           /\ held' = IF inside THEN Mutexes
                      ELSE IF how = "LockPanic" THEN held_after(res, held)
                      ELSE held_after(res, Mutexes)
           /\ pluginSlot' = IF how = "LockPanic" THEN pluginSlot
                            ELSE IF inside \/ how = "DefaultPanic" THEN NoPlugin
                            ELSE slot_after(res, inst)
           /\ plugin' = IF inside THEN inst ELSE NoPlugin
           /\ constructed' = IF how = "setup" THEN constructed + 1 ELSE constructed
           /\ setupCalls' = IF how = "setup" THEN setupCalls + 1 ELSE setupCalls
           /\ reports' = <<>>
    /\ lastOp' = NoOp
    /\ prevOp' = NoOp
    /\ capStatus' = 0
    /\ capLogged' = <<>>
    /\ capVal' = <<>>
    /\ lastEnv' = NoEnvCall
    /\ lastCall' = NoCall
    /\ UNCHANGED <<ctx, plugin_name, cacheVars, contended, histVars, written, envs,
                   lastSet>>

\* The operation before the next one, as prevOp keeps it.
Shift(op) == IF op.op = "get_option_value" /\ op.ncalls = 1 THEN op ELSE NoOp

\* The author's code that is running ends with res.  Plugin::setup returning
\* Ok leads on to the callback's method, unless the plugin's name does not
\* convert; every other end takes the entry point back to the host.
Finish(res) ==
    LET how == IF pc = "setup" THEN setup_stage(res) ELSE res
        r == stage_result(how)
        on == how = "running"
    IN  /\ pc' = IF on THEN "author" ELSE "host"
        /\ outcome' = how
        /\ status' = IF on THEN <<>> ELSE <<callback_status(r)>>
        /\ reports' = IF on \/ how = "NameErr" THEN reports
                      ELSE reports_after(r, reports,
                                         IF pc = "setup" THEN "setup" ELSE "author")
        /\ pluginSlot' = IF on THEN pluginSlot ELSE slot_after(r, plugin)
        /\ plugin' = IF on THEN plugin ELSE NoPlugin
        /\ optPoisoned' = IF on THEN optPoisoned ELSE poisoned_after(r, optPoisoned)
        /\ pluginPoisoned' = IF on THEN pluginPoisoned
                             ELSE poisoned_after(r, pluginPoisoned)
        /\ held' = IF on THEN held ELSE held_after(r, held)
        /\ lastOp' = NoOp
        /\ prevOp' = NoOp
        /\ lastEnv' = NoEnvCall
        /\ lastCall' = NoCall
        /\ UNCHANGED <<ctx, plugin_name, cacheVars, contended, cb, constructed,
                       setupCalls, capStatus, capLogged, capVal, histVars, written,
                       envs, lastSet>>

\* Plugin::setup returns Ok or Err, or panics.
SetupReturn(res) ==
    /\ pc = "setup"
    /\ Finish(res)

\* The callback's method returns Ok or Err, or panics.
Return(res) ==
    /\ pc = "author"
    /\ Finish(res)

\* The host registers options only while it runs slurm_spank_init.
register_allowed(c) == c = "init"

\* The author's method calls register_option, the native
\* spank_option_register answering st: never ESPANK_SUCCESS outside init.
RegisterOption(o, st) ==
    /\ pc \in {"setup", "author"}
    /\ Len(options) < MaxOptions
    /\ st = "ESPANK_SUCCESS" => register_allowed(cb)
    /\ LET r == register_option(options, o, st)
       IN  /\ options' = r.options
           /\ nativeRegs' = IF r.native /\ st = "ESPANK_SUCCESS"
                            THEN Append(nativeRegs, [val |-> r.val, name |-> o.name])
                            ELSE nativeRegs
           /\ lastOp' = [op |-> "register_option", name |-> o.name, res |-> r.res,
                         reply |-> [st |-> IF r.native THEN st ELSE "", arg |-> None],
                         ncalls |-> IF r.native THEN 1 ELSE 0, slot |-> r.val]
    /\ prevOp' = Shift(lastOp)
    /\ UNCHANGED <<ctx, plugin_name, values, lockVars, pluginVars, cbVars,
                   capStatus, capLogged, capVal, lastCaptured, overwrote, written, lastCall, envVars>>

\* The author's method calls one of the option value accessors.
QueryOption(acc, name, reply) ==
    /\ pc \in {"setup", "author"}
    /\ reply = NoReply <=> getopt_calls(ctx, name) = 0
    /\ lastOp' = [op |-> acc, name |-> name,
                  res |-> CASE acc = "get_option_value" ->
                                   get_option_value(ctx, values, name, reply)
                            [] acc = "get_option_value_os" ->
                                   AsRes(get_option_value_os(ctx, values, name, reply))
                            [] OTHER ->
                                   AsRes(get_option_value_lossy(ctx, values, name, reply)),
                  reply |-> reply, ncalls |-> getopt_calls(ctx, name), slot |-> -1]
    /\ prevOp' = Shift(lastOp)
    /\ values' = values_after_query(ctx, values, name, reply)
    /\ UNCHANGED <<ctx, plugin_name, options, lockVars, pluginVars, cbVars,
                   capStatus, capLogged, capVal, histVars, written, lastCall, envVars>>

\* The author's method queries a string item (slurm_version).
StrItem(reply) ==
    /\ pc \in {"setup", "author"}
    /\ LET r == get_item_str("SlurmVersion", reply)
       IN  IF r.kind = "Panic"
           THEN Finish("Panic")
           ELSE /\ lastOp' = [op |-> "slurm_version", name |-> <<>>, res |-> r,
                              reply |-> reply, ncalls |-> 1, slot |-> -1]
                /\ prevOp' = Shift(lastOp)
                /\ UNCHANGED <<ctx, plugin_name, cacheVars, lockVars, pluginVars,
                               cbVars, capStatus, capLogged, capVal, histVars, written, lastCall, envVars>>

\* The host calls spank_option_callback(val, optarg) between two lifecycle
\* callbacks; it does so in no job script's process, where only getopt gives
\* the options.  With the cache's mutex poisoned, expect() panics inside an
\* extern "C" function that catches nothing: the process aborts, or (builds
\* where that is undefined) the unwinding runs into the host.
Capture(val, optarg, ub) ==
    /\ pc = "host"
    /\ context(ctx) # "JobScript"
    /\ optPoisoned \/ ub = "aborted"
    /\ IF optPoisoned
       THEN /\ pc' = ub
            /\ UNCHANGED <<cacheVars, capStatus, capLogged, capVal, histVars>>
       ELSE LET r == spank_option_callback(options, values, val, optarg)
                stored == val >= 0 /\ val < Len(options)
                n == options[val + 1]
            IN  /\ pc' = pc
                /\ values' = r.values
                /\ capStatus' = r.status
                /\ capLogged' = r.log
                /\ capVal' = <<val>>
                /\ lastCaptured' = IF stored THEN Put(lastCaptured, n, optarg)
                                   ELSE lastCaptured
                /\ overwrote' = IF ~stored THEN overwrote
                                ELSE IF n \in DOMAIN lastCaptured /\ lastCaptured[n] # optarg
                                     THEN overwrote \cup {n}
                                     ELSE overwrote \ {n}
                /\ UNCHANGED <<options, nativeRegs>>
    /\ UNCHANGED <<ctx, plugin_name, lockVars, pluginVars, cb, status, outcome,
                   reports, opVars, written, lastCall, envVars>>

Next ==
    \/ \E c \in {Callbacks[i] : i \in 1..Len(Callbacks)}, dflt \in {"Ok", "Panic"} :
          Enter(c, dflt)
    \/ \E res \in Outcomes : SetupReturn(res)
    \/ \E res \in Outcomes : Return(res)
    \/ \E o \in SpankOptions, st \in {"ESPANK_SUCCESS"} \cup RegisterErrors :
          RegisterOption(o, st)
    \/ \E acc \in Accessors, name \in Names, reply \in GetoptReplies \cup {NoReply} :
          QueryOption(acc, name, reply)
    \/ \E reply \in ItemReplies : StrItem(reply)
    \/ \E val \in -1..MaxOptions, optarg \in {None} \cup {Some(v) : v \in Values},
          ub \in {"aborted", "unwound"} : Capture(val, optarg, ub)

Spec == InitCache /\ [][Next]_vars

\* ------------------------------------------- the plugin's own fields

\* Values an author's method gives a field of the plugin instance (a
\* P::default() instance holds 0).
FieldValues == {1, 2}

\* The callback's method writes a field of self (the greet field of the hello
\* example, written in init_post_opt and read in user_init); setup, which is
\* given &self, writes none.
Mutate(d) ==
    /\ pc = "author"
    /\ plugin' = [plugin EXCEPT !.data = d]
    /\ written' = [data |-> d, cb |-> cb]
    /\ UNCHANGED <<ctx, plugin_name, cacheVars, lockVars, pluginSlot, constructed,
                   setupCalls, cbVars, opVars, capStatus, capLogged, capVal, histVars,
                   lastCall, envVars>>

\* While a callback is running, the host calls the entry point of lifecycle
\* callback c from another thread: that call runs spank_callback_with_globals
\* up to its try_lock of the mutexes the running callback holds, and returns.
Contend(c) ==
    /\ pc \in {"setup", "author"}
    /\ c \in HostCalls(ctx)
    /\ LET how == entry_stage("Ok")
       IN  contended' = <<[cb |-> c, how |-> how,
                           status |-> callback_status(stage_result(how))]>>
    /\ UNCHANGED <<ctx, plugin_name, cacheVars, optPoisoned, pluginPoisoned, held,
                   pluginVars, cbVars, opVars, capStatus, capLogged, capVal, histVars,
                   written, lastCall, envVars>>

NextPlugin ==
    \/ \E c \in {Callbacks[i] : i \in 1..Len(Callbacks)}, dflt \in {"Ok", "Panic"} :
          Enter(c, dflt)
    \/ \E res \in Outcomes : SetupReturn(res)
    \/ \E res \in Outcomes : Return(res)
    \/ \E d \in FieldValues : Mutate(d)
    \/ \E c \in {Callbacks[i] : i \in 1..Len(Callbacks)} : Contend(c)

\* The lifecycle callbacks of a plugin whose methods write its fields, in a
\* host that may call an entry point while another is running.
SpecPlugin == InitCache /\ [][NextPlugin]_vars

\* --------------------------------------------------------- the environment

\* HashMap::remove
Remove(m, k) == [x \in DOMAIN m \ {k} |-> m[x]]

\* CStr::from_ptr(p).to_bytes(): the bytes before the first NUL.
UpToNul(s) ==
    IF HasNul(s)
    THEN SubSeq(s, 1, (CHOOSE i \in 1..Len(s) :
                           s[i] = 0 /\ \A j \in 1..(i - 1) : s[j] # 0) - 1)
    ELSE s

\* The first buffer do_getenv_os offers the native getenv.
InitialBufferSize == 4096

GetOps == {"getenv", "getenv_lossy", "getenv_os",
           "job_control_getenv", "job_control_getenv_lossy", "job_control_getenv_os"}
SetOps == {"setenv", "job_control_setenv"}
UnsetOps == {"unsetenv", "job_control_unsetenv"}

\* Every method passing on the job environment's native functions.
native_env_job_only(op) == "job"

\* The environment whose native functions a handle method passes on:
\* spank_getenv, spank_setenv, spank_unsetenv, or their job_control forms.
native_env(op) ==
    IF op \in {"job_control_getenv", "job_control_getenv_lossy", "job_control_getenv_os",
               "job_control_setenv", "job_control_unsetenv"}
    THEN "control" ELSE "job"

\* The host: the contexts in which it serves each environment, and the
\* status with which it refuses elsewhere.
env_avail(c, store) ==
    IF store = "job" THEN c \in {"Remote", "Slurmd"} ELSE c \in {"Local", "Allocator"}
env_refusal(store) == IF store = "job" THEN "ESPANK_NOT_REMOTE" ELSE "ESPANK_NOT_LOCAL"

\* The host's spank_setenv / spank_job_control_setenv on environment env;
\* refuse is the status it refuses with, "" when it serves the call.
spank_setenv(env, name, value, overwrite, refuse) ==
    IF refuse # "" THEN [st |-> refuse, env |-> env]
    ELSE IF name \in DOMAIN env /\ overwrite = 0
    THEN [st |-> "ESPANK_ENV_EXISTS", env |-> env]
    ELSE [st |-> "ESPANK_SUCCESS", env |-> Put(env, name, value)]

\* The host's spank_getenv / spank_job_control_getenv into a buffer of
\* size bytes: the status and the NUL-terminated buffer.
spank_getenv(env, name, size, refuse) ==
    IF refuse # "" THEN [st |-> refuse, buf |-> <<0>>]
    ELSE IF name \notin DOMAIN env THEN [st |-> "ESPANK_ENV_NOEXIST", buf |-> <<0>>]
    ELSE IF Len(env[name]) + 1 > size THEN [st |-> "ESPANK_NOSPACE", buf |-> <<0>>]
    ELSE [st |-> "ESPANK_SUCCESS", buf |-> Append(env[name], 0)]

\* The host's spank_unsetenv / spank_job_control_unsetenv.
spank_unsetenv(env, name, refuse) ==
    IF refuse # "" THEN [st |-> refuse, env |-> env]
    ELSE [st |-> "ESPANK_SUCCESS", env |-> Remove(env, name)]

\* The loop of do_getenv_os growing its buffer fourfold.
RECURSIVE getenv_loop_fourfold(_, _, _, _, _)
getenv_loop_fourfold(name, env, refuse, max_size, n) ==
    LET r == spank_getenv(env, name, max_size, refuse)
    IN  CASE r.st = "ESPANK_ENV_NOEXIST" -> [res |-> OkNone, st |-> r.st, ncalls |-> n]
          [] r.st = "ESPANK_SUCCESS" ->
                 [res |-> OkSome(UpToNul(r.buf)), st |-> r.st, ncalls |-> n]
          [] r.st = "ESPANK_NOSPACE" ->
                 getenv_loop_fourfold(name, env, refuse, max_size * 4, n + 1)
          [] OTHER -> [res |-> from_spank("spank_getenv", r.st), st |-> r.st, ncalls |-> n]

\* SpankHandle::do_getenv_os from its loop on, with a buffer of max_size:
\* the result, the last native status and the number of native calls.
RECURSIVE getenv_loop(_, _, _, _, _)
getenv_loop(name, env, refuse, max_size, n) ==
    LET r == spank_getenv(env, name, max_size, refuse)
    IN  CASE r.st = "ESPANK_ENV_NOEXIST" -> [res |-> OkNone, st |-> r.st, ncalls |-> n]
          [] r.st = "ESPANK_SUCCESS" ->
                 [res |-> OkSome(UpToNul(r.buf)), st |-> r.st, ncalls |-> n]
          [] r.st = "ESPANK_NOSPACE" -> getenv_loop(name, env, refuse, max_size * 2, n + 1)
          [] OTHER -> [res |-> from_spank("spank_getenv", r.st), st |-> r.st, ncalls |-> n]

\* SpankHandle::do_getenv_os
do_getenv_os(name, env, refuse) ==
    IF HasNul(name)
    THEN [res |-> from_str(to_string_lossy(name)), st |-> "", ncalls |-> 0]
    ELSE getenv_loop(name, env, refuse, InitialBufferSize, 1)

\* getenv taking an error of do_getenv_os for a missing variable.
getenv_err_as_none(name, env, refuse) ==
    LET r == do_getenv_os(name, env, refuse)
    IN  IF IsErr(r.res) THEN [r EXCEPT !.res = OkNone]
        ELSE IF r.res.kind = "OkSome" /\ ~IsUtf8(r.res.val)
        THEN [r EXCEPT !.res = from_os_str(r.res.val)]
        ELSE r

\* SpankHandle::getenv and job_control_getenv
getenv(name, env, refuse) ==
    LET r == do_getenv_os(name, env, refuse)
    IN  IF r.res.kind = "OkSome" /\ ~IsUtf8(r.res.val)
        THEN [r EXCEPT !.res = from_os_str(r.res.val)]
        ELSE r

\* SpankHandle::getenv_lossy and job_control_getenv_lossy
getenv_lossy(name, env, refuse) ==
    LET r == do_getenv_os(name, env, refuse)
    IN  IF r.res.kind = "OkSome"
        THEN [r EXCEPT !.res = OkSome(to_string_lossy(r.res.val))]
        ELSE r

\* SpankHandle::getenv_os and job_control_getenv_os
getenv_os(name, env, refuse) == do_getenv_os(name, env, refuse)

\* do_setenv never asking the host to overwrite.
do_setenv_no_overwrite(name, value, overwrite, env, refuse) ==
    IF HasNul(name)
    THEN [res |-> from_os_str(name), env |-> env, st |-> "", ncalls |-> 0]
    ELSE IF HasNul(value)
    THEN [res |-> from_os_str(value), env |-> env, st |-> "", ncalls |-> 0]
    ELSE LET r == spank_setenv(env, name, value, 0, refuse)
         IN  [res |-> CASE r.st = "ESPANK_SUCCESS" -> Ok
                        [] r.st = "ESPANK_ENV_EXISTS" -> EnvExists(to_string_lossy(name))
                        [] OTHER -> from_spank("spank_setenv", r.st),
              env |-> r.env, st |-> r.st, ncalls |-> 1]

\* do_setenv without the arm for ESPANK_ENV_EXISTS.
do_setenv_exists_generic(name, value, overwrite, env, refuse) ==
    IF HasNul(name)
    THEN [res |-> from_os_str(name), env |-> env, st |-> "", ncalls |-> 0]
    ELSE IF HasNul(value)
    THEN [res |-> from_os_str(value), env |-> env, st |-> "", ncalls |-> 0]
    ELSE LET r == spank_setenv(env, name, value, IF overwrite THEN 1 ELSE 0, refuse)
         IN  [res |-> IF r.st = "ESPANK_SUCCESS" THEN Ok
                      ELSE from_spank("spank_setenv", r.st),
              env |-> r.env, st |-> r.st, ncalls |-> 1]

\* SpankHandle::do_setenv: the result, the environment afterwards, the
\* native status and the number of native calls.
do_setenv(name, value, overwrite, env, refuse) ==
    IF HasNul(name)
    THEN [res |-> from_os_str(name), env |-> env, st |-> "", ncalls |-> 0]
    ELSE IF HasNul(value)
    THEN [res |-> from_os_str(value), env |-> env, st |-> "", ncalls |-> 0]
    ELSE LET r == spank_setenv(env, name, value, IF overwrite THEN 1 ELSE 0, refuse)
         IN  [res |-> CASE r.st = "ESPANK_SUCCESS" -> Ok
                        [] r.st = "ESPANK_ENV_EXISTS" -> EnvExists(to_string_lossy(name))
                        [] OTHER -> from_spank("spank_setenv", r.st),
              env |-> r.env, st |-> r.st, ncalls |-> 1]

\* SpankHandle::do_unsetenv
do_unsetenv(name, env, refuse) ==
    IF HasNul(name)
    THEN [res |-> from_os_str(name), env |-> env, st |-> "", ncalls |-> 0]
    ELSE LET r == spank_unsetenv(env, name, refuse)
         IN  [res |-> IF r.st = "ESPANK_SUCCESS" THEN Ok
                      ELSE from_spank("spank_unsetenv", r.st),
              env |-> r.env, st |-> r.st, ncalls |-> 1]

\* Names and values the author's methods pass to the environment calls.
EnvNames == { <<70>>, <<70, 0>> }
EnvValues == { <<195, 169>>, <<255>>, <<52, 0>> }

\* Statuses with which the host refuses a call in a context that serves it
\* ("": it does not refuse).
EnvFaults == {"", "ESPANK_BAD_ARG"}

\* The environment a handle method is documented to address.
Asked(op) ==
    CASE op \in {"getenv", "getenv_lossy", "getenv_os", "setenv", "unsetenv"} -> "job"
      [] OTHER -> "control"

\* What the host answers a call on store with, fault being its own reason
\* to refuse.
Refusal(store, fault) == IF env_avail(ctx, store) THEN fault ELSE env_refusal(store)

\* The record of an environment call: its arguments, what the environment
\* it addresses held for the name before, whether the host had any reason
\* to refuse, and whether the call before it was the same method on the
\* same name.
EnvCall(op, name, value, overwrite, fault, r) ==
    [op |-> op, name |-> name, value |-> value, overwrite |-> overwrite,
     before |-> IF name \in DOMAIN envs[Asked(op)]
                THEN Some(envs[Asked(op)][name]) ELSE None,
     avail |-> env_avail(ctx, Asked(op)) /\ fault = "",
     st |-> r.st, ncalls |-> r.ncalls, res |-> r.res,
     again |-> lastEnv.op = op /\ lastEnv.name = name]

\* The author's method calls setenv or job_control_setenv.
SetEnv(op, name, value, overwrite, fault) ==
    /\ pc \in {"setup", "author"}
    /\ fault = "" \/ env_avail(ctx, native_env(op))
    /\ LET store == native_env(op)
           r == do_setenv(name, value, overwrite, envs[store], Refusal(store, fault))
           c == EnvCall(op, name, value, overwrite, fault, r)
       IN  /\ envs' = [envs EXCEPT ![store] = r.env]
           /\ lastEnv' = c
           /\ lastSet' = IF c.avail /\ overwrite /\ ~HasNul(name) /\ ~HasNul(value)
                         THEN [lastSet EXCEPT ![Asked(op)] = Put(@, name, value)]
                         ELSE lastSet
    /\ UNCHANGED <<ctx, plugin_name, cacheVars, lockVars, pluginVars, cbVars, opVars,
                   capStatus, capLogged, capVal, histVars, written, lastCall>>

\* The author's method calls one of the six getenv methods.
GetEnv(op, name, fault) ==
    /\ pc \in {"setup", "author"}
    /\ fault = "" \/ env_avail(ctx, native_env(op))
    /\ LET store == native_env(op)
           refuse == Refusal(store, fault)
           r == CASE op \in {"getenv", "job_control_getenv"} ->
                         getenv(name, envs[store], refuse)
                  [] op \in {"getenv_lossy", "job_control_getenv_lossy"} ->
                         getenv_lossy(name, envs[store], refuse)
                  [] OTHER -> getenv_os(name, envs[store], refuse)
       IN  lastEnv' = EnvCall(op, name, <<>>, FALSE, fault, r)
    /\ UNCHANGED <<ctx, plugin_name, cacheVars, lockVars, pluginVars, cbVars, opVars,
                   capStatus, capLogged, capVal, histVars, written, lastCall, envs, lastSet>>

\* The author's method calls unsetenv or job_control_unsetenv.
UnsetEnv(op, name, fault) ==
    /\ pc \in {"setup", "author"}
    /\ fault = "" \/ env_avail(ctx, native_env(op))
    /\ LET store == native_env(op)
           r == do_unsetenv(name, envs[store], Refusal(store, fault))
           c == EnvCall(op, name, <<>>, FALSE, fault, r)
       IN  /\ envs' = [envs EXCEPT ![store] = r.env]
           /\ lastEnv' = c
           /\ lastSet' = IF c.avail /\ ~HasNul(name)
                         THEN [lastSet EXCEPT ![Asked(op)] = Remove(@, name)]
                         ELSE lastSet
    /\ UNCHANGED <<ctx, plugin_name, cacheVars, lockVars, pluginVars, cbVars, opVars,
                   capStatus, capLogged, capVal, histVars, written, lastCall>>

\* A step daemon's or a launcher's process, the plugin under a valid name.
InitEnv ==
    /\ Init
    /\ ctx \in {"Remote", "Local"}
    /\ plugin_name = <<116>>

NextEnv ==
    \/ \E c \in {Callbacks[i] : i \in 1..Len(Callbacks)}, dflt \in {"Ok", "Panic"} :
          Enter(c, dflt)
    \/ \E res \in Outcomes : SetupReturn(res)
    \/ \E res \in Outcomes : Return(res)
    \/ \E op \in SetOps, name \in EnvNames, value \in EnvValues, overwrite \in BOOLEAN,
          fault \in EnvFaults : SetEnv(op, name, value, overwrite, fault)
    \/ \E op \in GetOps, name \in EnvNames, fault \in EnvFaults : GetEnv(op, name, fault)
    \/ \E op \in UnsetOps, name \in EnvNames, fault \in EnvFaults :
          UnsetEnv(op, name, fault)

\* The lifecycle callbacks of a plugin whose methods use the environment.
SpecEnv == InitEnv /\ [][NextEnv]_vars

\* A value of n bytes, each the letter a.
RECURSIVE Fill(_)
Fill(n) ==
    IF n = 0 THEN <<>>
    ELSE IF n % 2 = 1 THEN Append(Fill(n - 1), 97)
    ELSE LET half == Fill(n \div 2) IN half \o half

\* Values around the sizes of the first two buffers of do_getenv_os.
LongValues ==
    {Fill(n) : n \in {InitialBufferSize - 1, InitialBufferSize,
                      2 * InitialBufferSize - 1, 2 * InitialBufferSize}}

\* A step daemon's process, the plugin under a valid name.
InitGrow ==
    /\ Init
    /\ ctx = "Remote"
    /\ plugin_name = <<116>>

NextGrow ==
    \/ \E c \in {"init", "user_init", "task_init"} : Enter(c, "Ok")
    \/ \E res \in {"Ok", "Err"} : SetupReturn(res)
    \/ \E res \in {"Ok", "Err"} : Return(res)
    \/ \E value \in LongValues \cup {<<52>>} : SetEnv("setenv", <<70>>, value, TRUE, "")
    \/ \E fault \in EnvFaults : GetEnv("getenv_os", <<70>>, fault)

\* Its lifecycle callbacks, the methods storing and reading long values.
SpecGrow == InitGrow /\ [][NextGrow]_vars

\* ------------------------------------------------------------ item queries

\* The getters that take a key, and the type of the key.
KeyedGetters == {"pid_to_global_id", "pid_to_local_id", "local_to_global_id",
                 "global_to_local_id"}
key_type(op) == IF op \in {"pid_to_global_id", "pid_to_local_id"} THEN "pid_t" ELSE "u32"

\* Some of the getters of a number that take no key.
PlainGetters == {"job_id", "task_id", "task_pid"}

\* The SpankItem each getter asks for, as {:?} prints it.
spank_item(op) ==
    CASE op = "pid_to_global_id" -> "JobPidToGlobalId"
      [] op = "pid_to_local_id" -> "JobPidToLocalId"
      [] op = "local_to_global_id" -> "JobLocalToGlobalId"
      [] op = "global_to_local_id" -> "JobGlobalToLocalId"
      [] op = "job_id" -> "JobId"
      [] op = "task_id" -> "TaskId"
      [] op = "task_pid" -> "TaskPid"

\* SpankError::from_noexist for a pid_t and for a u32
from_noexist(type, v) == IF type = "pid_t" THEN PidNotFound(v) ELSE IdNotFound(v)

\* SpankError::from_spank_item
from_spank_item(name, item, e) ==
    SpankAPI(name \o "(" \o item \o ")", SpankApiErrorFrom(e))

\* A keyed getter whose from_noexist forgets the key.
get_item_keyed_zero_key(op, key, reply) ==
    CASE reply.st = "ESPANK_SUCCESS" -> OkNum(reply.val)
      [] reply.st = "ESPANK_NOEXIST" -> from_noexist(key_type(op), 0)
      [] OTHER -> from_spank_item("spank_get_item", spank_item(op), reply.st)

\* The arm of spank_item_getter with an argument, spank_get_item answering
\* reply.
get_item_keyed(op, key, reply) ==
    CASE reply.st = "ESPANK_SUCCESS" -> OkNum(reply.val)
      [] reply.st = "ESPANK_NOEXIST" -> from_noexist(key_type(op), key)
      [] OTHER -> from_spank_item("spank_get_item", spank_item(op), reply.st)

\* The arm of spank_item_getter for a number without an argument.
get_item_plain(op, reply) ==
    IF reply.st = "ESPANK_SUCCESS" THEN OkNum(reply.val)
    ELSE from_spank_item("spank_get_item", spank_item(op), reply.st)

\* Keys asked for, and replies of spank_get_item for a number.
ItemKeys == {0, 42}
NumReplies ==
    {[st |-> "ESPANK_SUCCESS", val |-> v] : v \in {0, 7}}
        \cup {[st |-> e, val |-> 0] :
                e \in {"ESPANK_NOEXIST", "ESPANK_ERROR", "ESPANK_NOT_TASK", "ESPANK_ENV_NOEXIST"}}

\* A method calls a keyed getter.
KeyedItem(op, key, reply) ==
    /\ pc \in {"setup", "author"}
    /\ lastCall' = [op |-> op, input |-> <<key>>, st |-> reply.st,
                    got |-> <<reply.val>>, ncalls |-> 1,
                    res |-> get_item_keyed(op, key, reply), out |-> <<>>]
    /\ UNCHANGED <<ctx, plugin_name, cacheVars, lockVars, pluginVars, cbVars, opVars,
                   capStatus, capLogged, capVal, histVars, written, envVars>>

\* A method calls a getter of a number without a key.
PlainItem(op, reply) ==
    /\ pc \in {"setup", "author"}
    /\ lastCall' = [op |-> op, input |-> <<>>, st |-> reply.st,
                    got |-> <<reply.val>>, ncalls |-> 1,
                    res |-> get_item_plain(op, reply), out |-> <<>>]
    /\ UNCHANGED <<ctx, plugin_name, cacheVars, lockVars, pluginVars, cbVars, opVars,
                   capStatus, capLogged, capVal, histVars, written, envVars>>

\* SpankHandle::argv_to_vec: the strings, or the error of the first one
\* that is not UTF-8.
argv_to_vec(argv) ==
    LET bad == {i \in 1..Len(argv) : ~IsUtf8(argv[i])}
    IN  IF bad = {} THEN OkList(argv)
        ELSE from_cstr(argv[CHOOSE i \in bad : \A j \in bad : i <= j])

\* SpankHandle::plugin_argv, the handle holding arg: the vector the host gave
\* the callback, or a null pointer (with argc = 0), which
\* slice::from_raw_parts must not be given.  A build with the precondition
\* checks of the standard library panics without unwinding ("Abort"); a build
\* without them has been seen to take the null pointer for an empty slice.
plugin_argv(arg, ub) ==
    IF arg.some THEN argv_to_vec(arg.val)
    ELSE IF ub = "aborted" THEN [kind |-> "Abort", val |-> <<>>, fn |-> "", code |-> ""]
    ELSE OkList(<<>>)

\* SpankHandle::job_argv, spank_get_item answering reply: "Panic" stands for
\* the panic on a null pointer with a success status.
job_argv(reply) ==
    IF reply.st = "ESPANK_SUCCESS"
    THEN IF ~reply.arg.some
         THEN [kind |-> "Panic", val |-> <<>>, fn |-> "", code |-> ""]
         ELSE argv_to_vec(reply.arg.val)
    ELSE from_spank("spank_get_item", reply.st)

\* Argument vectors of the host, and its replies to a query for one.
ArgVectors == { <<>>, << <<97>> >>, << <<195, 169>>, <<255>> >> }
ArgvReplies ==
    {[st |-> "ESPANK_SUCCESS", arg |-> a] : a \in {None} \cup {Some(v) : v \in ArgVectors}}
        \cup {[st |-> e, arg |-> None] : e \in ItemErrors}

\* A method calls plugin_argv (reply.arg holds what the host gave the
\* callback, and no native call is made) or job_argv.  ub is what the build
\* makes of a null argv in plugin_argv.
ArgvCall(op, reply, ub) ==
    /\ pc \in {"setup", "author"}
    /\ op = "plugin_argv" => reply.st = "ESPANK_SUCCESS"
    /\ (op = "plugin_argv" /\ ~reply.arg.some) \/ ub = "aborted"
    /\ LET r == IF op = "plugin_argv" THEN plugin_argv(reply.arg, ub) ELSE job_argv(reply)
       IN  IF r.kind = "Abort"
           THEN /\ pc' = "aborted"
                /\ UNCHANGED <<ctx, plugin_name, cacheVars, lockVars, pluginVars, cb,
                               status, outcome, reports, opVars, capStatus, capLogged,
                               capVal, histVars, written, lastCall, envVars>>
           ELSE IF r.kind = "Panic"
           THEN Finish("Panic")
           ELSE /\ lastCall' = [op |-> op, input |-> <<>>, st |-> reply.st,
                                got |-> IF reply.arg.some THEN reply.arg.val ELSE <<>>,
                                ncalls |-> IF op = "plugin_argv" THEN 0 ELSE 1,
                                res |-> r, out |-> <<>>]
                /\ UNCHANGED <<ctx, plugin_name, cacheVars, lockVars, pluginVars, cbVars,
                               opVars, capStatus, capLogged, capVal, histVars, written,
                               envVars>>

\* A process in which the methods ask for items.
InitItems ==
    /\ InitCache
    /\ ctx = "Remote"
    /\ plugin_name = <<116>>

NextItems ==
    \/ \E c \in {Callbacks[i] : i \in 1..Len(Callbacks)}, dflt \in {"Ok", "Panic"} :
          Enter(c, dflt)
    \/ \E res \in Outcomes : SetupReturn(res)
    \/ \E res \in Outcomes : Return(res)
    \/ \E op \in KeyedGetters, key \in ItemKeys, reply \in NumReplies :
          KeyedItem(op, key, reply)
    \/ \E op \in PlainGetters, reply \in NumReplies : PlainItem(op, reply)
    \/ \E op \in {"plugin_argv", "job_argv"}, reply \in ArgvReplies,
          ub \in {"aborted", "empty"} : ArgvCall(op, reply, ub)

SpecItems == InitItems /\ [][NextItems]_vars

\* --------------------------------------------------- messages and logging

\* Whether the bytes t occur in s.
Contains(s, t) == \E i \in 0..(Len(s) - Len(t)) : SubSeq(s, i + 1, i + Len(t)) = t

\* A natural number in decimal, as {} prints it.
RECURSIVE Digits(_)
Digits(n) == IF n < 10 THEN <<48 + n>> ELSE Digits(n \div 10) \o <<48 + (n % 10)>>

\* An integer in decimal, with "-" before a negative one.
Decimal(n) == IF n < 0 THEN <<45>> \o Digits(-n) ELSE Digits(n)

\* The pieces of text of the two Display implementations.
\* "Unknown Error"
TxtUnknownError ==
    <<85, 110, 107, 110, 111, 119, 110, 32, 69, 114, 114, 111, 114>>
\* "Error calling SPANK API function "
TxtErrorCalling ==
    <<69, 114, 114, 111, 114, 32, 99, 97, 108, 108, 105, 110, 103, 32, 83,
      80, 65, 78, 75, 32, 65, 80, 73, 32, 102, 117, 110, 99, 116, 105,
      111, 110, 32>>
\* ": "
TxtColon ==
    <<58, 32>>
\* "Cannot parse "
TxtCannotParse ==
    <<67, 97, 110, 110, 111, 116, 32, 112, 97, 114, 115, 101, 32>>
\* " as UTF-8"
TxtAsUtf8 ==
    <<32, 97, 115, 32, 85, 84, 70, 45, 56>>
\* "String "
TxtString ==
    <<83, 116, 114, 105, 110, 103, 32>>
\* " cannot be converted to a C string"
TxtCannotConvert ==
    <<32, 99, 97, 110, 110, 111, 116, 32, 98, 101, 32, 99, 111, 110, 118,
      101, 114, 116, 101, 100, 32, 116, 111, 32, 97, 32, 67, 32, 115, 116,
      114, 105, 110, 103>>
\* "Environment variable "
TxtEnvVar ==
    <<69, 110, 118, 105, 114, 111, 110, 109, 101, 110, 116, 32, 118, 97,
      114, 105, 97, 98, 108, 101, 32>>
\* " exists and overwrite was not set"
TxtExists ==
    <<32, 101, 120, 105, 115, 116, 115, 32, 97, 110, 100, 32, 111, 118,
      101, 114, 119, 114, 105, 116, 101, 32, 119, 97, 115, 32, 110, 111,
      116, 32, 115, 101, 116>>
\* "Could not find pid "
TxtNoPid ==
    <<67, 111, 117, 108, 100, 32, 110, 111, 116, 32, 102, 105, 110, 100,
      32, 112, 105, 100, 32>>
\* "Could not find id "
TxtNoId ==
    <<67, 111, 117, 108, 100, 32, 110, 111, 116, 32, 102, 105, 110, 100,
      32, 105, 100, 32>>
\* "Integer overflow: "
TxtOverflow ==
    <<73, 110, 116, 101, 103, 101, 114, 32, 111, 118, 101, 114, 102, 108,
      111, 119, 58, 32>>

\* impl Display for SpankApiError, spank_strerror answering msg: the text
\* of the host when it is UTF-8.
display_api(msg) == IF IsUtf8(msg) THEN msg ELSE TxtUnknownError

\* Display printing a pid that was not found as an id.
display_pid_as_id(e, msg) ==
    CASE e.kind = "SpankAPI" -> TxtErrorCalling \o e.fn \o TxtColon \o display_api(msg)
      [] e.kind = "Utf8Error" -> TxtCannotParse \o e.val \o TxtAsUtf8
      [] e.kind = "CStringError" -> TxtString \o e.val \o TxtCannotConvert
      [] e.kind = "EnvExists" -> TxtEnvVar \o e.val \o TxtExists
      [] e.kind = "PidNotFound" -> TxtNoId \o Decimal(e.val[1])
      [] e.kind = "IdNotFound" -> TxtNoId \o Decimal(e.val[1])
      [] e.kind = "Overflow" -> TxtOverflow \o Decimal(e.val[1])

\* impl Display for SpankError; the name of a SpankAPI error is given in
\* bytes here.
display(e, msg) ==
    CASE e.kind = "SpankAPI" -> TxtErrorCalling \o e.fn \o TxtColon \o display_api(msg)
      [] e.kind = "Utf8Error" -> TxtCannotParse \o e.val \o TxtAsUtf8
      [] e.kind = "CStringError" -> TxtString \o e.val \o TxtCannotConvert
      [] e.kind = "EnvExists" -> TxtEnvVar \o e.val \o TxtExists
      [] e.kind = "PidNotFound" -> TxtNoPid \o Decimal(e.val[1])
      [] e.kind = "IdNotFound" -> TxtNoId \o Decimal(e.val[1])
      [] e.kind = "Overflow" -> TxtOverflow \o Decimal(e.val[1])

\* Errors a method formats: each variant with two payloads or more; the payloads
\* of the variants that carry a string are the same, and so are those of
\* the variants that carry a number.
\* "spank_getenv", "spank_get_item(JobId)"
ApiNames ==
    { <<115, 112, 97, 110, 107, 95, 103, 101, 116, 101, 110, 118>>,
      <<115, 112, 97, 110, 107, 95, 103, 101, 116, 95, 105, 116, 101, 109, 40,
        74, 111, 98, 73, 100, 41>> }
\* "", "pid 7"
ErrorTexts == { <<>>, <<112, 105, 100, 32, 55>> }
ErrorNumbers == {0, 7}
Errors ==
    {CStringError(t) : t \in ErrorTexts} \cup {EnvExists(t) : t \in ErrorTexts}
        \cup {Utf8Error(t) : t \in ErrorTexts}
        \cup {IdNotFound(n) : n \in ErrorNumbers} \cup {PidNotFound(n) : n \in ErrorNumbers \cup {-1}}
        \cup {Overflow(n) : n \in ErrorNumbers}
        \cup {SpankAPI(f, "NotTask") : f \in ApiNames}

\* What spank_strerror answers: a text ("Generic error"), or bytes that are
\* not UTF-8.
StrerrorReplies ==
    { <<71, 101, 110, 101, 114, 105, 99, 32, 101, 114, 114, 111, 114>>, <<255>> }

\* A method formats two errors with {}: Display calls spank_strerror once
\* for each SpankAPI error it prints, and not at all for the other variants.
Format(e1, e2, msg) ==
    /\ pc \in {"setup", "author"}
    /\ lastCall' = [op |-> "to_string", input |-> <<e1, e2>>, st |-> "", got |-> msg,
                    ncalls |-> (IF e1.kind = "SpankAPI" THEN 1 ELSE 0)
                                 + (IF e2.kind = "SpankAPI" THEN 1 ELSE 0),
                    res |-> NoRes,
                    out |-> <<display(e1, msg), display(e2, msg)>>]
    /\ UNCHANGED <<ctx, plugin_name, cacheVars, lockVars, pluginVars, cbVars, opVars,
                   capStatus, capLogged, capVal, histVars, written, envVars>>

\* str::split on the NUL character.
RECURSIVE split(_)
split(msg) ==
    IF ~HasNul(msg) THEN <<msg>>
    ELSE LET i == CHOOSE k \in 1..Len(msg) : msg[k] = 0 /\ \A j \in 1..(k - 1) : msg[j] # 0
         IN  <<SubSeq(msg, 1, i - 1)>> \o split(SubSeq(msg, i + 1, Len(msg)))

\* [&str]::join
RECURSIVE join(_, _)
join(pieces, sep) ==
    IF Len(pieces) = 0 THEN <<>>
    ELSE IF Len(pieces) = 1 THEN pieces[1]
    ELSE pieces[1] \o sep \o join(Tail(pieces), sep)

\* cstring_escape_null joining the pieces with nothing.
cstring_escape_null_drop(msg) == join(split(msg), <<>>)

\* cstring_escape_null: the pieces between the NULs joined with "0".
cstring_escape_null(msg) == join(split(msg), <<48>>)

\* The host's logging function of each LogLevel.
LogLevels == {"Error", "Info", "Verbose", "Debug", "Debug2", "Debug3"}
log_function(level) ==
    CASE level = "Error" -> "slurm_error"
      [] level = "Info" -> "slurm_info"
      [] level = "Verbose" -> "slurm_verbose"
      [] level = "Debug" -> "slurm_debug"
      [] level = "Debug2" -> "slurm_debug2"
      [] level = "Debug3" -> "slurm_debug3"

\* spank_log: the host function called and the string handed to it after
\* the format "%s".
spank_log(level, msg) == <<log_function(level), cstring_escape_null(msg)>>

\* Messages logged: with and without NUL characters.
Messages == { <<>>, <<104, 105>>, <<0>>, <<104, 0, 105>>, <<0, 0>>, <<195, 169, 0, 48>> }

\* A method logs a message.
Log(level, msg) ==
    /\ pc \in {"setup", "author"}
    /\ lastCall' = [op |-> "spank_log", input |-> msg, st |-> level, got |-> <<>>,
                    ncalls |-> 1, res |-> NoRes, out |-> spank_log(level, msg)]
    /\ UNCHANGED <<ctx, plugin_name, cacheVars, lockVars, pluginVars, cbVars, opVars,
                   capStatus, capLogged, capVal, histVars, written, envVars>>

NextText ==
    \/ \E c \in {Callbacks[i] : i \in 1..Len(Callbacks)}, dflt \in {"Ok", "Panic"} :
          Enter(c, dflt)
    \/ \E res \in Outcomes : SetupReturn(res)
    \/ \E res \in Outcomes : Return(res)
    \/ \E e1 \in Errors, e2 \in Errors, msg \in StrerrorReplies : Format(e1, e2, msg)
    \/ \E level \in LogLevels, msg \in Messages : Log(level, msg)

\* A process in which the methods format errors and log.
SpecText == InitItems /\ [][NextText]_vars

\* ---------------------------------------------- the getenv buffer's length

\* Buffer sizes in this section are counted in units of InitialBufferSize
\* bytes: every size do_getenv_os reaches is a multiple of it, and 2^31 bytes
\* is more than the integers of the checker hold.

\* The most ESPANK_NOSPACE answers in a row the host gives one getenv call.
MaxRetries == 21

\* 2^32 bytes, the span of a 32-bit integer, in units of InitialBufferSize.
I32Span == 2^20

\* max_size as i32: the low 32 bits of max_size, read as a signed integer.
as_i32(max_size) ==
    LET m == max_size % I32Span
    IN  IF m >= I32Span \div 2 THEN m - I32Span ELSE m

\* The native calls of one do_getenv_os that the host answers ESPANK_NOSPACE
\* nospace times in a row: for each call, the size of the buffer allocated
\* by vec![0; max_size] and the length passed with it.
RECURSIVE getenv_buffers(_, _)
getenv_buffers(max_size, nospace) ==
    <<[alloc |-> max_size, len |-> as_i32(max_size)]>>
        \o (IF nospace = 0 THEN <<>> ELSE getenv_buffers(max_size * 2, nospace - 1))

\* What do_getenv_os returns for the host's last answer.
getenv_answer(final, value) ==
    CASE final = "ESPANK_ENV_NOEXIST" -> OkNone
      [] final = "ESPANK_SUCCESS" -> OkSome(value)
      [] OTHER -> from_spank("spank_getenv", final)

\* The author's method calls getenv_os; the host answers ESPANK_NOSPACE
\* nospace times and then final, having written "4" when final is success.
GetEnvRetry(nospace, final) ==
    /\ pc \in {"setup", "author"}
    /\ lastCall' = [op |-> "getenv_os", input |-> <<nospace>>, st |-> final,
                    got |-> IF final = "ESPANK_SUCCESS" THEN <<52>> ELSE <<>>,
                    ncalls |-> nospace + 1,
                    res |-> getenv_answer(final, <<52>>),
                    out |-> getenv_buffers(1, nospace)]
    /\ UNCHANGED <<ctx, plugin_name, cacheVars, lockVars, pluginVars, cbVars, opVars,
                   capStatus, capLogged, capVal, histVars, written, envVars>>

NextRetry ==
    \/ \E c \in {"init", "user_init", "task_init"} : Enter(c, "Ok")
    \/ \E res \in {"Ok", "Err"} : SetupReturn(res)
    \/ \E res \in {"Ok", "Err"} : Return(res)
    \/ \E nospace \in 0..MaxRetries,
          final \in {"ESPANK_SUCCESS", "ESPANK_ENV_NOEXIST", "ESPANK_BAD_ARG"} :
          GetEnvRetry(nospace, final)

\* Its lifecycle callbacks, the methods reading variables the host finds too
\* long for the buffer again and again.
SpecRetry == InitGrow /\ [][NextRetry]_vars

\* ------------------------------------------------------------- properties

\* C1: the k-th successful register_option call hands slot k - 1 (counting
\* from zero) to the native registration and stores the option's name at
\* that index of options, and no step removes or moves an entry of options.
C1_SlotStability ==
    [][/\ Len(nativeRegs') = Len(options')
       /\ \A k \in 1..Len(options') :
              nativeRegs'[k].val = k - 1 /\ options'[k] = nativeRegs'[k].name
       /\ \A i \in 1..Len(options) :
              Len(options') >= i /\ options'[i] = options[i]]_vars

\* Two options registered, the second after a successful first, under
\* different names.
C1_Witness ==
    /\ Len(options) = 2
    /\ options[1] # options[2]
    /\ nativeRegs[2] = [val |-> 1, name |-> options[2]]
    /\ lastOp.op = "register_option"
    /\ lastOp.res = Ok
    /\ lastOp.slot = 1

\* C2: outside JobScript, once the capture callback stored a value v for
\* option n, a later get_option_value_os(n) returns v, and a later
\* get_option_value(n) returns v when v is valid UTF-8 and a Utf8Error
\* otherwise, until another capture for n.
C2_CapturedValueQueried ==
    (/\ pc \in {"setup", "author"}
     /\ context(ctx) # "JobScript"
     /\ lastOp.op \in {"get_option_value", "get_option_value_os"}
     /\ lastOp.name \in DOMAIN lastCaptured
     /\ lastCaptured[lastOp.name].some)
    => LET v == lastCaptured[lastOp.name].val
       IN  IF lastOp.op = "get_option_value_os" \/ IsUtf8(v)
           THEN lastOp.res = OkSome(v)
           ELSE lastOp.res.kind = "Utf8Error"

\* A callback after init reads back, with get_option_value, the valid UTF-8
\* value the capture callback stored.
C2_Witness ==
    /\ pc = "author"
    /\ context(ctx) # "JobScript"
    /\ cb # "init"
    /\ lastOp.op = "get_option_value"
    /\ lastOp.name \in DOMAIN lastCaptured
    /\ lastCaptured[lastOp.name] = Some(<<195, 169>>)
    /\ lastOp.res = OkSome(<<195, 169>>)

\* C2 as the specification words it: get_option_value(n) returns v whatever
\* the bytes of v.
C2_Original ==
    (/\ pc \in {"setup", "author"}
     /\ context(ctx) # "JobScript"
     /\ lastOp.op = "get_option_value"
     /\ lastOp.name \in DOMAIN lastCaptured
     /\ lastCaptured[lastOp.name].some)
    => lastOp.res = OkSome(lastCaptured[lastOp.name].val)

\* C3: after captures of v1 and then of a different v2 for one name, each
\* accessor answers from v2 alone: get_option_value_os returns v2,
\* get_option_value returns v2 when it is valid UTF-8 and a Utf8Error
\* otherwise, get_option_value_lossy returns v2 with its invalid sequences
\* replaced by U+FFFD.
C3_LastCaptureWins ==
    (/\ pc \in {"setup", "author"}
     /\ lastOp.op \in Accessors
     /\ lastOp.name \in overwrote
     /\ lastCaptured[lastOp.name].some)
    => LET v2 == lastCaptured[lastOp.name].val
       IN  CASE lastOp.op = "get_option_value_os" -> lastOp.res = OkSome(v2)
             [] lastOp.op = "get_option_value" ->
                    IF IsUtf8(v2) THEN lastOp.res = OkSome(v2)
                    ELSE lastOp.res.kind = "Utf8Error"
             [] OTHER -> lastOp.res = OkSome(to_string_lossy(v2))

\* A value captured over a different earlier one is read back.
C3_Witness ==
    /\ pc = "author"
    /\ lastOp.op = "get_option_value_os"
    /\ lastOp.name \in overwrote
    /\ lastCaptured[lastOp.name].some
    /\ lastOp.res = OkSome(lastCaptured[lastOp.name].val)

\* C3 as the specification words it: each of the three accessors returns v2.
C3_Original ==
    (/\ pc \in {"setup", "author"}
     /\ lastOp.op \in Accessors
     /\ lastOp.name \in overwrote
     /\ lastCaptured[lastOp.name].some)
    => lastOp.res = OkSome(lastCaptured[lastOp.name].val)

\* C4: get_option_value(n) called inside init, no capture having stored
\* anything, returns absent in every context, JobScript included.
C4_InitQueryAbsent ==
    (/\ pc \in {"setup", "author"}
     /\ cb = "init"
     /\ lastOp.op = "get_option_value"
     /\ DOMAIN lastCaptured = {})
    => lastOp.res = OkNone

\* C5: under JobScript, after a get_option_value(n) whose native getopt
\* returned v, values[n] holds v, and the next get_option_value(n) returns v
\* without a native call.
C5_JobScriptQueryCached ==
    (/\ pc \in {"setup", "author"}
     /\ context(ctx) = "JobScript"
     /\ prevOp.op = "get_option_value"
     /\ prevOp.reply.st = "ESPANK_SUCCESS"
     /\ prevOp.reply.arg.some
     /\ lastOp.op = "get_option_value"
     /\ lastOp.name = prevOp.name)
    => /\ lastOp.name \in DOMAIN values
       /\ values[lastOp.name] = prevOp.reply.arg
       /\ lastOp.res = OkSome(prevOp.reply.arg.val)
       /\ lastOp.ncalls = 0

\* C6: under JobScript, two consecutive get_option_value(n) calls that the
\* native getopt answers with a failure status or a null argument both return
\* absent, and neither returns an error.
C6_UnsetTwiceAbsent ==
    (/\ pc \in {"setup", "author"}
     /\ context(ctx) = "JobScript"
     /\ prevOp.op = "get_option_value"
     /\ ReplyUnset(prevOp.reply)
     /\ lastOp.op = "get_option_value"
     /\ lastOp.name = prevOp.name
     /\ ReplyUnset(lastOp.reply))
    => prevOp.res = OkNone /\ lastOp.res = OkNone

\* A failure status, then a success with a null argument, for one name.
C6_Witness ==
    /\ pc = "author"
    /\ context(ctx) = "JobScript"
    /\ prevOp.op = "get_option_value"
    /\ prevOp.reply = [st |-> "ESPANK_NOT_AVAIL", arg |-> None]
    /\ lastOp.op = "get_option_value"
    /\ lastOp.name = prevOp.name
    /\ lastOp.reply = [st |-> "ESPANK_SUCCESS", arg |-> None]
    /\ prevOp.res = OkNone
    /\ lastOp.res = OkNone

\* C7: a lifecycle callback in which the author's method or the dispatch
\* around it panicked has returned -1 to the host, whichever of the twelve
\* entry points it was.
C7_PanicContained ==
    (pc = "host" /\ outcome \in {"Panic", "LockPanic", "DefaultPanic", "SetupPanic"})
    => status = <<-1>>

\* task_exit's author method panicked and the host got -1.
C7_Witness ==
    /\ pc = "host"
    /\ cb = "task_exit"
    /\ outcome = "Panic"
    /\ status = <<-1>>

\* C8: after a callback whose author method panicked, neither mutex is
\* poisoned, and the next lifecycle callback gets past acquiring them.
C8_UsableAfterPanic ==
    [][(pc = "host" /\ outcome = "Panic")
       => /\ ~optPoisoned
          /\ ~pluginPoisoned
          /\ (pc' \in {"host", "setup", "author"} /\ capVal' = <<>>)
                => outcome' # "LockPanic"]_vars

\* C9: after a lifecycle callback whose author method returned Ok, returned
\* Err or panicked, the plugin slot holds the instance again.
C9_SlotRefilled ==
    (pc = "host" /\ outcome \in {"Ok", "Err", "Panic"}) => pluginSlot # NoPlugin

\* C10: a callback whose author method returned Ok gave the host 0; one whose
\* author method returned Err gave it -1 after report_error ran exactly once,
\* with the author's error.
C10_StatusAndReport ==
    pc = "host"
    => /\ outcome = "Ok" => status = <<0>>
       /\ outcome = "Err" => status = <<-1>> /\ reports = <<"author">>

\* job_prolog's author method returned Err.
C10_Witness ==
    /\ pc = "host"
    /\ cb = "job_prolog"
    /\ outcome = "Err"
    /\ status = <<-1>>
    /\ reports = <<"author">>

\* C11: setup has been invoked before any lifecycle method of the plugin
\* runs, and at most once in the process, whichever entry point came first.
C11_SetupFirstOnce ==
    /\ setupCalls <= 1
    /\ (pc \in {"setup", "author"} \/ outcome \in {"Ok", "Err", "Panic"}) => setupCalls = 1

\* exit's method runs, setup having been invoked once.
C11_Witness ==
    /\ pc = "author"
    /\ cb = "exit"
    /\ setupCalls = 1

\* C12: an entry point in which setup was invoked and its Err given to
\* report_error goes on to the author's method in that same invocation.
C12_SetupErrStillRuns ==
    [][(/\ pc = "setup"
        /\ setupCalls = 1
        /\ reports' = <<"setup">>)
       => pc' = "author"]_vars

\* C14: wherever the author registers options, register_option given a name,
\* argument name or usage text with a NUL byte returns CStringError without
\* calling the native registration, and such a call leaves options and
\* values as they were.
C14_NulRejected ==
    [][/\ (lastOp' # lastOp /\ lastOp'.op = "register_option")
          => \A o \in SpankOptions, st \in {"ESPANK_SUCCESS"} \cup RegisterErrors :
                 (\/ HasNul(o.name)
                  \/ (o.arginfo.some /\ HasNul(o.arginfo.val))
                  \/ (o.usage.some /\ HasNul(o.usage.val)))
                 => LET r == register_option(options, o, st)
                    IN  r.res.kind = "CStringError" /\ ~r.native /\ r.options = options
       /\ (/\ lastOp' # lastOp
           /\ lastOp'.op = "register_option"
           /\ lastOp'.res.kind = "CStringError")
          => /\ lastOp'.ncalls = 0
             /\ options' = options
             /\ values' = values
             /\ nativeRegs' = nativeRegs]_vars

\* A registration rejected for a NUL, after one that succeeded and a capture.
C14_Witness ==
    /\ lastOp.op = "register_option"
    /\ lastOp.res.kind = "CStringError"
    /\ lastOp.ncalls = 0
    /\ Len(options) = 1
    /\ DOMAIN values # {}

\* C15: when the native registration answers a failure status,
\* register_option returns SpankAPI("spank_option_register", mapped code) and
\* leaves options and values as they were; a successful registration made
\* right after it is given the same slot.
C15_NativeFailureFrame ==
    [][/\ (/\ lastOp' # lastOp
           /\ lastOp'.op = "register_option"
           /\ lastOp'.ncalls = 1
           /\ lastOp'.reply.st # "ESPANK_SUCCESS")
          => /\ lastOp'.res.kind = "SpankAPI"
             /\ lastOp'.res.fn = "spank_option_register"
             /\ lastOp'.reply.st = "ESPANK_BAD_ARG" => lastOp'.res.code = "BadArg"
             /\ lastOp'.slot = Len(options')
             /\ options' = options
             /\ values' = values
       /\ (/\ lastOp.op = "register_option"
           /\ lastOp.ncalls = 1
           /\ lastOp.reply.st # "ESPANK_SUCCESS"
           /\ lastOp' # lastOp
           /\ lastOp'.op = "register_option"
           /\ lastOp'.res = Ok)
          => lastOp'.slot = lastOp.slot]_vars

\* The native registration refused the second option.
C15_Witness ==
    /\ lastOp.op = "register_option"
    /\ lastOp.res = SpankAPI("spank_option_register", "BadArg")
    /\ lastOp.slot = 1
    /\ Len(options) = 1

\* C20: outside JobScript, an option whose last capture came with a null
\* optarg is set (is_option_set is true) and has no value: get_option_value,
\* get_option_value_os and get_option_value_lossy return absent.
C20_FlagSetWithoutValue ==
    \A n \in DOMAIN lastCaptured :
        (context(ctx) # "JobScript" /\ ~lastCaptured[n].some)
        => /\ is_option_set(ctx, values, n, NoReply)
           /\ get_option_value(ctx, values, n, NoReply) = OkNone
           /\ get_option_value_os(ctx, values, n, NoReply) = None
           /\ get_option_value_lossy(ctx, values, n, NoReply) = None
           /\ (pc \in {"setup", "author"} /\ lastOp.op \in Accessors /\ lastOp.name = n)
              => lastOp.res = OkNone

\* The author's method asks for the value of an option captured as a flag.
C20_Witness ==
    /\ pc = "author"
    /\ context(ctx) # "JobScript"
    /\ lastOp.op = "get_option_value"
    /\ lastOp.name \in DOMAIN lastCaptured
    /\ ~lastCaptured[lastOp.name].some
    /\ is_option_set(ctx, values, lastOp.name, NoReply)
    /\ lastOp.res = OkNone

\* C13: no instance exists before the first lifecycle callback, P::default()
\* returns at most once in the process, and, no callback having panicked,
\* each callback works on that one instance with the field values the
\* methods before it wrote, which the slot holds again once it has returned.
C13_OneInstanceKeepsState ==
    /\ constructed <= 1
    /\ cb = "none" => (constructed = 0 /\ pluginSlot = NoPlugin)
    /\ pc \in {"setup", "author"} => (constructed = 1 /\ plugin = [id |-> 1, data |-> written.data])
    /\ (pc = "host" /\ outcome \in {"Ok", "Err"})
       => pluginSlot = [id |-> 1, data |-> written.data]

\* user_init works on the instance as init_post_opt left it.
C13_Witness ==
    /\ pc = "author"
    /\ cb = "user_init"
    /\ written = [data |-> 2, cb |-> "init_post_opt"]
    /\ plugin = [id |-> 1, data |-> 2]

\* C16: while nothing has undone a setenv(name, value, overwrite = true) the
\* host served, with no NUL in name or value, a getenv_os(name) the host
\* serves returns value, and a getenv(name) returns value when it is valid
\* UTF-8 and a Utf8Error otherwise, in the same callback or a later one;
\* likewise for the job_control forms.
C16_SetThenGet ==
    (/\ pc \in {"setup", "author"}
     /\ lastEnv.op \in {"getenv", "getenv_os", "job_control_getenv", "job_control_getenv_os"}
     /\ lastEnv.avail
     /\ lastEnv.name \in DOMAIN lastSet[Asked(lastEnv.op)])
    => LET v == lastSet[Asked(lastEnv.op)][lastEnv.name]
       IN  IF lastEnv.op \in {"getenv_os", "job_control_getenv_os"} \/ IsUtf8(v)
           THEN lastEnv.res = OkSome(v)
           ELSE lastEnv.res.kind = "Utf8Error"

\* local_user_init reads, with job_control_getenv, a value set with overwrite.
C16_Witness ==
    /\ pc = "author"
    /\ cb = "local_user_init"
    /\ lastEnv.op = "job_control_getenv"
    /\ ~lastEnv.again
    /\ lastEnv.name \in DOMAIN lastSet.control
    /\ lastSet.control[lastEnv.name] = <<195, 169>>
    /\ lastEnv.res = OkSome(<<195, 169>>)

\* C16 as the specification words it: getenv(name) returns value for every
\* value without NUL.
C16_Original ==
    (/\ pc \in {"setup", "author"}
     /\ lastEnv.op \in {"getenv", "job_control_getenv"}
     /\ lastEnv.avail
     /\ lastEnv.name \in DOMAIN lastSet[Asked(lastEnv.op)])
    => lastEnv.res = OkSome(lastSet[Asked(lastEnv.op)][lastEnv.name])

\* C17: a setenv without overwrite that the host serves returns EnvExists
\* with the name and leaves the stored value alone when the variable was
\* set, and returns Ok and stores the value when it was not.
C17_NoOverwrite ==
    (/\ pc \in {"setup", "author"}
     /\ lastEnv.op \in SetOps
     /\ ~lastEnv.overwrite
     /\ lastEnv.avail
     /\ ~HasNul(lastEnv.name)
     /\ ~HasNul(lastEnv.value))
    => LET env == envs[Asked(lastEnv.op)]
       IN  /\ lastEnv.name \in DOMAIN env
           /\ IF lastEnv.before.some
              THEN /\ lastEnv.res = EnvExists(to_string_lossy(lastEnv.name))
                   /\ env[lastEnv.name] = lastEnv.before.val
              ELSE /\ lastEnv.res = Ok
                   /\ env[lastEnv.name] = lastEnv.value

\* setenv without overwrite met a variable holding another value.
C17_Witness ==
    /\ pc = "author"
    /\ lastEnv.op = "setenv"
    /\ ~lastEnv.overwrite
    /\ lastEnv.before.some
    /\ lastEnv.before.val # lastEnv.value
    /\ lastEnv.res = EnvExists(lastEnv.name)
    /\ envs.job[lastEnv.name] = lastEnv.before.val

\* C18: a getenv or job_control_getenv that reached the native call returns
\* Ok(None) exactly when the last native status was ESPANK_ENV_NOEXIST;
\* on ESPANK_SUCCESS it returns Ok(Some(value)) when the value is valid
\* UTF-8 and a Utf8Error when it is not; on any other status it returns the
\* SpankAPI error of that status; it returns Ok(Some) on no other status.
C18_GetenvOutcomes ==
    (/\ pc \in {"setup", "author"}
     /\ lastEnv.op \in {"getenv", "job_control_getenv"}
     /\ lastEnv.ncalls >= 1)
    => /\ lastEnv.res = OkNone <=> lastEnv.st = "ESPANK_ENV_NOEXIST"
       /\ lastEnv.res.kind = "OkSome" => lastEnv.st = "ESPANK_SUCCESS"
       /\ lastEnv.st = "ESPANK_SUCCESS"
          => IF IsUtf8(lastEnv.before.val)
             THEN lastEnv.res = OkSome(lastEnv.before.val)
             ELSE lastEnv.res.kind = "Utf8Error"
       /\ lastEnv.st \notin {"ESPANK_SUCCESS", "ESPANK_ENV_NOEXIST"}
          => /\ lastEnv.res.kind = "SpankAPI"
             /\ lastEnv.res.code = SpankApiErrorFrom(lastEnv.st)

\* getenv refused by the host, in a context that serves the job environment.
C18_Witness ==
    /\ pc = "author"
    /\ lastEnv.op = "getenv"
    /\ lastEnv.before.some
    /\ lastEnv.st = "ESPANK_BAD_ARG"
    /\ lastEnv.res.kind = "SpankAPI"
    /\ lastEnv.res.code = "BadArg"

\* C18 as the specification words it: Ok(Some) exactly on success, Ok(None)
\* exactly on the missing status, an error exactly on the other statuses.
C18_Original ==
    (/\ pc \in {"setup", "author"}
     /\ lastEnv.op \in {"getenv", "job_control_getenv"}
     /\ lastEnv.ncalls >= 1)
    => /\ lastEnv.res = OkNone <=> lastEnv.st = "ESPANK_ENV_NOEXIST"
       /\ lastEnv.res.kind = "OkSome" <=> lastEnv.st = "ESPANK_SUCCESS"
       /\ IsErr(lastEnv.res) <=> lastEnv.st \notin {"ESPANK_SUCCESS", "ESPANK_ENV_NOEXIST"}

\* C19: an unsetenv or job_control_unsetenv the host serves, for a variable
\* that is not set, returns Ok and leaves both environments as they were;
\* so does the same call made again right after one that returned Ok.
C19_UnsetMissing ==
    [][/\ (/\ lastEnv' # lastEnv
           /\ lastEnv'.op \in UnsetOps
           /\ lastEnv'.avail
           /\ ~HasNul(lastEnv'.name)
           /\ ~lastEnv'.before.some)
          => (lastEnv'.res = Ok /\ envs' = envs)
       /\ (/\ lastEnv.op \in UnsetOps
           /\ lastEnv.res = Ok
           /\ lastEnv' # lastEnv
           /\ lastEnv'.op = lastEnv.op
           /\ lastEnv'.name = lastEnv.name
           /\ lastEnv'.avail)
          => (lastEnv'.res = Ok /\ envs' = envs)]_vars

\* The second of two unsetenv calls in a row for a variable that is not set.
C19_Witness ==
    /\ pc = "author"
    /\ lastEnv.op = "unsetenv"
    /\ lastEnv.again
    /\ lastEnv.avail
    /\ ~lastEnv.before.some
    /\ lastEnv.res = Ok

\* C21: a spank_option_callback called with a val that is no index of
\* options (negative, or not below its length) returns -1, logs an error
\* naming val, and leaves options and values as they were.
C21_UnknownSlotRejected ==
    [][(/\ pc = "host"
        /\ pc' = "host"
        /\ capVal' # <<>>
        /\ (capVal'[1] < 0 \/ capVal'[1] >= Len(options)))
       => /\ capStatus' = -1
          /\ capLogged' = capVal'
          /\ options' = options
          /\ values' = values]_vars

\* A capture with val = Len(options) was refused while the cache held an
\* option and a value.
C21_Witness ==
    /\ pc = "host"
    /\ capStatus = -1
    /\ Len(options) >= 1
    /\ capVal = <<Len(options)>>
    /\ capLogged = capVal
    /\ DOMAIN values # {}

\* C22: spank_option_callback never unwinds into the host and never ends
\* the process: whenever the host calls it, the mutex poisoned or not, it
\* gives the host an integer status and the host runs on.
C22_CaptureReturns == pc \in {"host", "setup", "author"}

\* C23: a keyed item query (pid_to_global_id, pid_to_local_id,
\* local_to_global_id, global_to_local_id) gives the value on success,
\* PidNotFound(pid) or IdNotFound(id) with the key asked for on
\* ESPANK_NOEXIST, and a SpankAPI error on every other status; a query
\* without a key gives a SpankAPI error on ESPANK_NOEXIST as well.
C23_ItemNotFound ==
    /\ (pc \in {"setup", "author"} /\ lastCall.op \in KeyedGetters)
       => CASE lastCall.st = "ESPANK_SUCCESS" -> lastCall.res = OkNum(lastCall.got[1])
            [] lastCall.st = "ESPANK_NOEXIST" ->
                 lastCall.res = (IF lastCall.op \in {"pid_to_global_id", "pid_to_local_id"}
                                 THEN PidNotFound(lastCall.input[1])
                                 ELSE IdNotFound(lastCall.input[1]))
            [] OTHER -> /\ lastCall.res.kind = "SpankAPI"
                        /\ lastCall.res.code = SpankApiErrorFrom(lastCall.st)
    /\ (pc \in {"setup", "author"} /\ lastCall.op \in PlainGetters /\ lastCall.st # "ESPANK_SUCCESS")
       => /\ lastCall.res.kind = "SpankAPI"
          /\ lastCall.res.code = SpankApiErrorFrom(lastCall.st)

\* global_to_local_id(42) met ESPANK_NOEXIST.
C23_Witness ==
    /\ pc = "author"
    /\ lastCall.op = "global_to_local_id"
    /\ lastCall.input = <<42>>
    /\ lastCall.st = "ESPANK_NOEXIST"
    /\ lastCall.res = IdNotFound(42)

\* C24: a SpankAPI error of an environment method names the native function
\* that failed: spank_getenv, spank_setenv, spank_unsetenv for the job
\* environment, spank_job_control_getenv, spank_job_control_setenv,
\* spank_job_control_unsetenv for the job control environment.
C24_ErrorNamesNative ==
    (pc \in {"setup", "author"} /\ lastEnv.res.kind = "SpankAPI")
    => lastEnv.res.fn =
         (CASE lastEnv.op \in {"getenv", "getenv_lossy", "getenv_os"} -> "spank_getenv"
            [] lastEnv.op = "setenv" -> "spank_setenv"
            [] lastEnv.op = "unsetenv" -> "spank_unsetenv"
            [] lastEnv.op \in {"job_control_getenv", "job_control_getenv_lossy",
                               "job_control_getenv_os"} -> "spank_job_control_getenv"
            [] lastEnv.op = "job_control_setenv" -> "spank_job_control_setenv"
            [] lastEnv.op = "job_control_unsetenv" -> "spank_job_control_unsetenv")

\* C25: an environment method given a name, or a setenv given a value, with
\* an interior NUL returns CStringError and makes no native call.
C25_NulIsCStringError ==
    (/\ pc \in {"setup", "author"}
     /\ lastEnv.op \in GetOps \cup SetOps \cup UnsetOps
     /\ (HasNul(lastEnv.name) \/ (lastEnv.op \in SetOps /\ HasNul(lastEnv.value))))
    => /\ lastEnv.res.kind = "CStringError"
       /\ lastEnv.ncalls = 0

\* C26: plugin_argv and job_argv, given by the host a vector holding a
\* string that is not valid UTF-8, return Utf8Error.
C26_BadUtf8IsUtf8Error ==
    (/\ pc \in {"setup", "author"}
     /\ lastCall.op \in {"plugin_argv", "job_argv"}
     /\ lastCall.st = "ESPANK_SUCCESS"
     /\ \E i \in 1..Len(lastCall.got) : ~IsUtf8(lastCall.got[i]))
    => lastCall.res.kind = "Utf8Error"

\* C27: every SpankError renders to a string that is not empty; two errors
\* of different variants render to different strings, whatever their
\* payloads; and the rendering of a SpankAPI error holds the name of the
\* native function.
C27_DisplayDistinct ==
    (pc \in {"setup", "author"} /\ lastCall.op = "to_string")
    => LET e1 == lastCall.input[1]
           e2 == lastCall.input[2]
       IN  /\ Len(lastCall.out[1]) > 0
           /\ e1.kind # e2.kind => lastCall.out[1] # lastCall.out[2]
           /\ e1.kind = "SpankAPI" => Contains(lastCall.out[1], e1.fn)

\* PidNotFound(7) and IdNotFound(7), two variants with the same payload, were
\* formatted to different texts.
C27_Witness ==
    /\ pc = "author"
    /\ lastCall.op = "to_string"
    /\ lastCall.input = <<PidNotFound(7), IdNotFound(7)>>
    /\ lastCall.out[1] # lastCall.out[2]
    /\ Len(lastCall.out[1]) > 0

\* C29: spank_log hands the host, for every message, the message with each
\* NUL byte replaced by the character 0: as long as the message, without
\* NUL, and equal to the message when that holds no NUL.
C29_LogEscapesNul ==
    (pc \in {"setup", "author"} /\ lastCall.op = "spank_log")
    => LET msg == lastCall.input
           c_msg == lastCall.out[2]
       IN  /\ lastCall.out[1] = log_function(lastCall.st)
           /\ Len(c_msg) = Len(msg)
           /\ \A i \in 1..Len(msg) : c_msg[i] = (IF msg[i] = 0 THEN 48 ELSE msg[i])
           /\ ~HasNul(c_msg)
           /\ ~HasNul(msg) => c_msg = msg

\* A message with a NUL between two letters was logged at level Debug2.
C29_Witness ==
    /\ pc = "author"
    /\ lastCall.op = "spank_log"
    /\ lastCall.st = "Debug2"
    /\ lastCall.input = <<104, 0, 105>>
    /\ lastCall.out = <<"slurm_debug2", <<104, 48, 105>>>>

\* C28: a register_option call made from a lifecycle method other than init
\* returns an error and leaves options as they were.
C28_RegisterOnlyInInit ==
    [][(/\ lastOp' # lastOp
        /\ lastOp'.op = "register_option"
        /\ cb # "init")
       => /\ IsErr(lastOp'.res)
          /\ options' = options]_vars

\* A register_option in task_init, with strings free of NUL, went to the
\* host and came back with an error.
C28_Witness ==
    /\ pc = "author"
    /\ cb = "task_init"
    /\ lastOp.op = "register_option"
    /\ lastOp.ncalls = 1
    /\ lastOp.res.kind = "SpankAPI"
    /\ Len(options) = 1

\* C30: a getenv_os that reaches the native call (do_getenv_os, which all
\* the getenv methods rest on) returns at the first status
\* other than ESPANK_NOSPACE, and offers buffers of 4096, 8192, ... bytes:
\* for a variable that is not set, or a call the host refuses, it makes one
\* native call; for a value of L bytes it makes k calls, the k-th buffer of
\* 4096 * 2^(k-1) bytes being longer than L and, when k > 1, the one before
\* it not: k = 1 when L < 4096, and k <= floor(log2(L / 4096)) + 2 otherwise.
C30_BufferDoubles ==
    (/\ pc \in {"setup", "author"}
     /\ lastEnv.op = "getenv_os"
     /\ lastEnv.ncalls >= 1)
    => LET k == lastEnv.ncalls
           L == Len(lastEnv.before.val)
       IN  /\ lastEnv.st # "ESPANK_NOSPACE"
           /\ lastEnv.st # "ESPANK_SUCCESS" => k = 1
           /\ lastEnv.st = "ESPANK_SUCCESS"
              => /\ InitialBufferSize * 2^(k - 1) > L
                 /\ k > 1 => InitialBufferSize * 2^(k - 2) <= L
                 /\ lastEnv.res = OkSome(lastEnv.before.val)

\* A value of 8192 bytes was read with three native calls.
C30_Witness ==
    /\ pc = "author"
    /\ lastEnv.op = "getenv_os"
    /\ lastEnv.before.some
    /\ Len(lastEnv.before.val) = 2 * InitialBufferSize
    /\ lastEnv.ncalls = 3
    /\ lastEnv.res = OkSome(lastEnv.before.val)

\* C30 as the specification words it: for a value of L bytes the number k
\* of native calls is at most ceil(log2(L / 4096)) + 1, which for k = 1
\* says L > 2048 and for k > 1 says 4096 * 2^(k-2) < L.
C30_Original ==
    (/\ pc \in {"setup", "author"}
     /\ lastEnv.op = "getenv_os"
     /\ lastEnv.st = "ESPANK_SUCCESS")
    => LET k == lastEnv.ncalls
           L == Len(lastEnv.before.val)
       IN  /\ k = 1 => L > InitialBufferSize \div 2
           /\ k > 1 => InitialBufferSize * 2^(k - 2) < L

\* C31: a lifecycle callback entered while OPTION_CACHE or PLUGIN cannot be
\* locked at once returns -1 in that same step: it does not wait,
\* Plugin::default and setup are not called, no author method runs and
\* nothing is reported.  This holds of a callback that finds a mutex
\* poisoned, and of one the host calls while another callback is running and
\* holds the guards; the running callback goes on as if nothing had happened.
C31_LockFailureReturns ==
    [][/\ (/\ pc = "host"
           /\ pc' \in {"host", "setup", "author"} /\ capVal' = <<>>
           /\ (optPoisoned \/ pluginPoisoned))
          => /\ pc' = "host"
             /\ status' = <<-1>>
             /\ outcome' = "LockPanic"
             /\ setupCalls' = setupCalls
             /\ constructed' = constructed
             /\ plugin' = NoPlugin
             /\ pluginSlot' = pluginSlot
             /\ reports' = <<>>
       /\ (pc \in {"setup", "author"} /\ held # {} /\ contended' # contended)
          => /\ contended'[1].how = "LockPanic"
             /\ contended'[1].status = -1
             /\ pc' = pc
             /\ cb' = cb
             /\ status' = <<>>
             /\ held' = held
             /\ setupCalls' = setupCalls
             /\ constructed' = constructed
             /\ plugin' = plugin
             /\ pluginSlot' = pluginSlot
             /\ reports' = reports
             /\ written' = written]_vars

\* A callback the host called while the method of another held the guards
\* has returned -1, and so has, later on, a callback that found a mutex
\* poisoned.
C31_Witness ==
    /\ contended # <<>>
    /\ contended[1].how = "LockPanic"
    /\ contended[1].status = -1
    /\ contended[1].cb # cb
    /\ pc = "host"
    /\ outcome = "LockPanic"
    /\ optPoisoned
    /\ status = <<-1>>

\* C32: while control is in the host no guard of OPTION_CACHE or PLUGIN is
\* held, however the last callback ended, and a running lifecycle method holds
\* both.
C32_NoGuardInHost ==
    /\ pc = "host" => held = {}
    /\ pc \in {"setup", "author"} => held = Mutexes

\* A lifecycle callback ended by a caught panic, and control is in the host.
C32_Witness ==
    /\ pc = "host"
    /\ outcome = "Panic"
    /\ status = <<-1>>
    /\ held = {}

\* C33: OptionCache.values changes only in a step of the capture callback or
\* of an option value query made in JobScript context, and OptionCache.options
\* only in a register_option that returned Ok: queries in the other contexts,
\* item queries and failed registrations leave both as they were.
C33_CacheFrame ==
    [][/\ values' # values
          => \/ pc = "host" /\ pc' = "host" /\ cb' = cb /\ capVal' # <<>>
             \/ /\ pc \in {"setup", "author"}
                /\ context(ctx) = "JobScript"
                /\ lastOp'.op \in Accessors
       /\ options' # options
          => /\ pc \in {"setup", "author"}
             /\ lastOp'.op = "register_option"
             /\ lastOp'.res = Ok
             /\ values' = values]_vars

\* With an option registered and a value captured, the running method has
\* just made a registration that failed.
C33_Witness ==
    /\ pc = "author"
    /\ context(ctx) # "JobScript"
    /\ Len(options) > 0
    /\ DOMAIN values # {}
    /\ lastOp.op = "register_option"
    /\ IsErr(lastOp.res)

\* C34: outside JobScript, an option for which no capture callback has stored
\* anything in this process is reported as not set and without a value by
\* every lifecycle method, in Slurmd context as in the others.
C34_UncapturedIsUnset ==
    (pc \in {"setup", "author"} /\ context(ctx) # "JobScript")
        => \A n \in Names :
              n \notin DOMAIN lastCaptured
                  => /\ ~is_option_set(ctx, values, n, NoReply)
                     /\ get_option_value(ctx, values, n, NoReply) = OkNone
                     /\ (lastOp.op \in Accessors /\ lastOp.name = n)
                            => lastOp.res = OkNone

\* In slurmd, slurm_spank_slurmd_exit asks for the value of an option that
\* init registered and that no capture callback has fired for.
C34_Witness ==
    /\ pc = "author"
    /\ ctx = "Slurmd"
    /\ cb = "slurmd_exit"
    /\ lastOp.op = "get_option_value"
    /\ \E i \in 1..Len(options) : options[i] = lastOp.name
    /\ lastOp.name \notin DOMAIN lastCaptured
    /\ lastOp.res = OkNone

\* C35: every name that has an entry in OptionCache.values is one of the
\* names in OptionCache.options.
C35_ValuesAreRegistered ==
    DOMAIN values \subseteq {options[i] : i \in 1..Len(options)}

\* An option has a captured value, and the last capture callback was fired
\* with a val that no registered option has.
C35_Witness ==
    /\ pc = "host"
    /\ Len(options) > 0
    /\ DOMAIN values # {}
    /\ capVal # <<>>
    /\ capStatus = -1

\* C36: a lifecycle entry point that returned -1 without a panic had
\* report_error called exactly once in that callback.
C36_FailureReportedOnce ==
    (/\ pc = "host"
     /\ status = <<-1>>
     /\ outcome \notin {"LockPanic", "DefaultPanic", "SetupPanic", "Panic"})
        => Len(reports) = 1

\* C37: inside a lifecycle method, in every context, a name for which
\* get_option_value_os returns a value is a name for which is_option_set, asked
\* in the same state and given the same native answer, returns true.
C37_ValueImpliesSet ==
    pc \in {"setup", "author"}
        => /\ \A n \in Names :
                 \A reply \in IF getopt_calls(ctx, n) = 0 THEN {NoReply} ELSE GetoptReplies :
                    get_option_value_os(ctx, values, n, reply).some
                        => is_option_set(ctx, values, n, reply)
           /\ (lastOp.op = "get_option_value_os" /\ lastOp.res.kind = "OkSome")
                 => is_option_set(ctx, values, lastOp.name, lastOp.reply)

\* In a job script's process get_option_value_os has just returned the value
\* the native getopt gave, and is_option_set is true for that name.
C37_Witness ==
    /\ pc = "author"
    /\ context(ctx) = "JobScript"
    /\ lastOp.op = "get_option_value_os"
    /\ lastOp.res.kind = "OkSome"
    /\ is_option_set(ctx, values, lastOp.name, lastOp.reply)

\* C38: the lifecycle callback that follows one ended by an Err of setup or
\* of the author's method takes both mutexes, does not call setup, and runs
\* its author method on the instance that was put back, with the option cache
\* as it was.
C38_ErrKeepsPluginUsable ==
    [][(/\ pc = "host"
        /\ pc' \in {"host", "setup", "author"} /\ capVal' = <<>>
        /\ status = <<-1>>
        /\ outcome \in {"SetupErr", "Err"})
       => /\ pc' = "author"
          /\ held' = Mutexes
          /\ setupCalls' = setupCalls
          /\ constructed' = constructed
          /\ pluginSlot # NoPlugin
          /\ plugin' = pluginSlot
          /\ options' = options
          /\ values' = values]_vars

\* C39: in every native call of a getenv, the first and each retry, the
\* length passed is positive and is the size of the buffer allocated.
C39_LengthIsBufferSize ==
    lastCall.op = "getenv_os"
        => \A i \in 1..Len(lastCall.out) :
              /\ lastCall.out[i].len > 0
              /\ lastCall.out[i].len = lastCall.out[i].alloc
====
